---- MODULE Spec2Model ----
(***************************************************************************)
(* Markdown-to-slides compiler of lesson-planner (md2gslides):             *)
(*   parser/extract_slides.ts   token rules folding tokens into slides     *)
(*   parser/env.ts              the extraction Context                      *)
(*   layout/match_layout.ts     layout matching                             *)
(*   layout/generic_layout.ts   request builder (pass 1 and pass 2)        *)
(*   slide_generator.ts         create batch / reload / populate batch     *)
(*                                                                         *)
(* Text is a sequence of one-character strings.  "N" stands for the line   *)
(* feed, "V" for the vertical tab U+000B, "T" for the tab, " " for space.  *)
(* An optional JavaScript value (x?: T) is a sequence of length 0 or 1.    *)
(***************************************************************************)
EXTENDS Integers, Sequences, FiniteSets, TLC

(***************************************************************************)
(* Bounds                                                                  *)
(***************************************************************************)
\* number of tokens of one document, for the extraction specifications
MaxTokens == 12

\* number of tokens of one document, for the generation specifications
MaxGenTokens == 14

\* number of tokens of one document, for the generation of tables
MaxTableTokens == 12

\* number of keys of a style object handed to computeShallowFieldMask
MaxKeys == 3

\* number of layouts of a deck handed to matchLayout
MaxLayouts == 2

\* number of bodies of a slide handed to the shape classification
MaxBodies == 3
MaxPlaceholders == 3
MaxRows == 2
MaxColumns == 2
MaxBlocks == 5
MaxNesting == 3
MaxTicks == 4
MaxMessages == 2

(***************************************************************************)
(* Helpers                                                                 *)
(***************************************************************************)
Last(s) == s[Len(s)]

Front(s) == SubSeq(s, 1, Len(s) - 1)

Max(a, b) == IF a > b THEN a ELSE b

Min(a, b) == IF a < b THEN a ELSE b

\* String.prototype.trim(): the characters JavaScript strips as white space
WhiteSpace == {"N", "V", "T", " "}

\* text.rawText.trim().length, as a truth value
TrimNonEmpty(rawText) == \E i \in 1..Len(rawText) : rawText[i] \notin WhiteSpace

\* token.content.replace(/\n/g, '\u000b')
ReplaceLineFeeds(content) == [i \in 1..Len(content) |-> IF content[i] = "N" THEN "V" ELSE content[i]]

\* new Array(depth + 1).join('\t')
Tabs(depth) == [i \in 1..depth |-> "T"]

(***************************************************************************)
(* Token payloads                                                          *)
(***************************************************************************)
TextContent == <<"a">>

CodeContent == <<"c">>

FenceContent == <<"c", "N">>

HeadingTags == {"h1", "h2", "h3"}

\* heading_open payloads: the tag, and whether the token has class "big"
HeadingKinds ==
  {[tag |-> "h1", big |-> FALSE], [tag |-> "h1", big |-> TRUE],
   [tag |-> "h2", big |-> FALSE], [tag |-> "h3", big |-> FALSE]}

\* paragraph_open payloads: class "column", and the layout attribute
ParagraphKinds ==
  {[column |-> FALSE, layout |-> ""], [column |-> TRUE, layout |-> ""],
   [column |-> FALSE, layout |-> "Custom"]}

ListTags == {"ul", "ol"}

(***************************************************************************)
(* Context (parser/env.ts)                                                 *)
(***************************************************************************)
NewTextBlock == [rawText |-> <<>>, textRuns |-> <<>>, listMarkers |-> <<>>, big |-> FALSE]

NewSlide(id) ==
  [objectId |-> id, customLayout |-> "", title |-> <<>>, subtitle |-> <<>>,
   bodies |-> <<>>, tables |-> <<>>, notes |-> <<>>]

Fail(ctx, msg) == [ctx EXCEPT !.error = msg]

startSlide(ctx) ==
  IF ctx.error # "" THEN ctx
  ELSE [ctx EXCEPT !.currentSlide = <<NewSlide(ctx.uuidNext)>>,
                   !.uuidNext = ctx.uuidNext + 1]

endSlide(ctx) ==
  IF ctx.error # "" THEN ctx
  ELSE LET withBody ==
             IF ctx.text # <<>> /\ TrimNonEmpty(ctx.text[1].rawText)
             THEN [ctx.currentSlide[1] EXCEPT !.bodies = Append(@, [text |-> ctx.text])]
             ELSE ctx.currentSlide[1]
       IN [ctx EXCEPT !.slides = IF ctx.currentSlide # <<>> THEN Append(@, withBody) ELSE @,
                      !.currentSlide = <<>>,
                      !.text = <<>>]

done(ctx) == endSlide(ctx)

startTextBlock(ctx) ==
  IF ctx.error # "" THEN ctx ELSE [ctx EXCEPT !.text = <<NewTextBlock>>]

appendText(ctx, content) ==
  IF ctx.error # "" THEN ctx
  ELSE IF ctx.text = <<>> THEN Fail(ctx, "Assertion failed")
  ELSE [ctx EXCEPT !.text[1].rawText = @ \o content]

currentStyle(ctx) == Last(ctx.styles)

startStyle(ctx, newStyle) ==
  IF ctx.error # "" THEN ctx
  ELSE LET inherited == IF ctx.styles = <<>> THEN {} ELSE currentStyle(ctx).attrs
           start == IF ctx.text = <<>> THEN 0 ELSE Len(ctx.text[1].rawText)
       IN [ctx EXCEPT !.styles = Append(@, [attrs |-> newStyle \cup inherited, start |-> start])]

\* a run kept whenever its two offsets differ
endStyleKeepsUnequal(style, end) == end # style.start /\ style.attrs # {}

\* the run is kept only when its range is non-empty (end > start) and it
\* sets at least one attribute
endStyleKeeps(style, end) == end > style.start /\ style.attrs # {}

endStyle(ctx) ==
  IF ctx.error # "" THEN ctx
  ELSE IF ctx.styles = <<>> \/ ctx.text = <<>> THEN Fail(ctx, "Assertion failed")
  ELSE LET style == currentStyle(ctx)
           end == Len(ctx.text[1].rawText)
           run == [attrs |-> style.attrs, start |-> style.start, end |-> end]
       IN [ctx EXCEPT !.styles = Front(@),
                      !.text[1].textRuns = IF endStyleKeeps(style, end) THEN Append(@, run) ELSE @]

NewContext ==
  startSlide([slides |-> <<>>, currentSlide |-> <<>>, text |-> <<>>,
              styles |-> <<[attrs |-> {}, start |-> 0]>>,
              markerParagraph |-> FALSE, row |-> <<>>, table |-> <<>>, list |-> <<>>,
              error |-> "", uuidNext |-> 1, ruleSet |-> "full"])

(***************************************************************************)
(* Token rules (parser/extract_slides.ts).  A rule maps the context before *)
(* the token to the context after it; a throw sets ctx.error and every     *)
(* later step of the same rule is skipped.                                 *)
(***************************************************************************)
inlineTokenRules_text(ctx) == endStyle(appendText(startStyle(ctx, {}), TextContent))

inlineTokenRules_paragraph_open(ctx, column, layout) ==
  IF ctx.currentSlide = <<>> THEN Fail(ctx, "Assertion failed")
  ELSE LET c1 == IF column
                 THEN startTextBlock(
                        [ctx EXCEPT !.markerParagraph = TRUE,
                                    !.currentSlide[1].bodies = Append(@, [text |-> ctx.text])])
                 ELSE IF ctx.text = <<>> THEN startTextBlock(ctx) ELSE ctx
       IN IF layout # "" THEN [c1 EXCEPT !.currentSlide[1].customLayout = layout] ELSE c1

\* paragraph_close adding the line break after a marker paragraph too
inlineTokenRules_paragraph_closeLineBreak(ctx) ==
  appendText([ctx EXCEPT !.markerParagraph = FALSE], <<"N">>)

inlineTokenRules_paragraph_close(ctx) ==
  IF ctx.markerParagraph THEN [ctx EXCEPT !.markerParagraph = FALSE]
  ELSE appendText(ctx, <<"N">>)

inlineTokenRules_fence(ctx) ==
  endStyle(appendText(appendText(startStyle(ctx, {"fontFamily"}),
                                 ReplaceLineFeeds(FenceContent)), <<"N">>))

inlineTokenRules_em_open(ctx) == startStyle(ctx, {"italic"})

inlineTokenRules_em_close(ctx) == endStyle(ctx)

inlineTokenRules_strong_open(ctx) == startStyle(ctx, {"bold"})

inlineTokenRules_strong_close(ctx) == endStyle(ctx)

inlineTokenRules_code_inline(ctx) ==
  endStyle(appendText(startStyle(ctx, {"fontFamily"}), CodeContent))

inlineTokenRules_list_open(ctx, tag) ==
  IF ctx.text = <<>> THEN Fail(ctx, "Assertion failed")
  ELSE LET c1 == startStyle(ctx, {})
       IN IF c1.list # <<>>
          THEN IF c1.list[1].tag # tag
               THEN Fail(c1, "Nested lists must match parent style")
               ELSE [c1 EXCEPT !.list[1].depth = @ + 1]
          ELSE [c1 EXCEPT !.list = <<[depth |-> 0, tag |-> tag,
                                      start |-> Len(c1.text[1].rawText)]>>]

inlineTokenRules_list_close(ctx, tag) ==
  IF ctx.list = <<>> \/ ctx.text = <<>> THEN Fail(ctx, "Assertion failed")
  ELSE LET c1 == IF ctx.list[1].depth = 0
                 THEN [ctx EXCEPT !.text[1].listMarkers =
                                     Append(@, [start |-> ctx.list[1].start,
                                                end |-> Len(ctx.text[1].rawText),
                                                type |-> IF tag = "ul" THEN "unordered"
                                                                         ELSE "ordered"]),
                                  !.list = <<>>]
                 ELSE [ctx EXCEPT !.list[1].depth = @ - 1]
       IN endStyle(c1)

inlineTokenRules_list_item_open(ctx) ==
  IF ctx.list = <<>> THEN Fail(ctx, "Assertion failed")
  ELSE appendText(startStyle(ctx, {}), Tabs(ctx.list[1].depth))

inlineTokenRules_list_item_close(ctx) == endStyle(ctx)

fullTokenRules_heading_open(ctx, big) ==
  LET c1 == startStyle(startTextBlock(ctx), {})
  IN [c1 EXCEPT !.text[1].big = big]

\* heading_close without the startTextBlock that follows endStyle
fullTokenRules_heading_closeKeepsBlock(ctx, tag) ==
  IF ctx.currentSlide = <<>> THEN Fail(ctx, "Assertion failed")
  ELSE LET c1 == endStyle(ctx)
       IN IF tag = "h1" THEN [c1 EXCEPT !.currentSlide[1].title = c1.text]
          ELSE IF tag = "h2" THEN [c1 EXCEPT !.currentSlide[1].subtitle = c1.text]
          ELSE c1

\* currentSlide.title and context.text are one object until startTextBlock
\* replaces context.text, so the run endStyle appends is seen through the
\* title as well
fullTokenRules_heading_close(ctx, tag) ==
  IF ctx.currentSlide = <<>> THEN Fail(ctx, "Assertion failed")
  ELSE LET c1 == endStyle(ctx)
           c2 == IF tag = "h1" THEN [c1 EXCEPT !.currentSlide[1].title = c1.text]
                 ELSE IF tag = "h2" THEN [c1 EXCEPT !.currentSlide[1].subtitle = c1.text]
                 ELSE c1
       IN startTextBlock(c2)

fullTokenRules_hr(ctx) == startSlide(endSlide(ctx))

fullTokenRules_table_open(ctx) ==
  LET c1 == startStyle(ctx, {})
  IN IF c1.error # "" THEN c1
     ELSE [c1 EXCEPT !.table = <<[rows |-> 0, columns |-> 0, cells |-> <<>>]>>]

fullTokenRules_table_close(ctx) ==
  IF ctx.currentSlide = <<>> \/ ctx.table = <<>> THEN Fail(ctx, "Assertion failed")
  ELSE endStyle([ctx EXCEPT !.currentSlide[1].tables = Append(@, ctx.table[1])])

fullTokenRules_tr_open(ctx) ==
  LET c1 == startStyle(ctx, {})
  IN IF c1.error # "" THEN c1 ELSE [c1 EXCEPT !.row = <<>>]

\* tr_close taking the length of the row just closed as the column count
fullTokenRules_tr_closeLastRow(ctx) ==
  IF ctx.table = <<>> THEN Fail(ctx, "Assertion failed")
  ELSE LET cells == Append(ctx.table[1].cells, ctx.row)
       IN endStyle([ctx EXCEPT !.table[1].cells = cells,
                               !.table[1].columns = Len(ctx.row),
                               !.table[1].rows = Len(cells)])

fullTokenRules_tr_close(ctx) ==
  IF ctx.table = <<>> THEN Fail(ctx, "Assertion failed")
  ELSE LET cells == Append(ctx.table[1].cells, ctx.row)
       IN endStyle([ctx EXCEPT !.table[1].cells = cells,
                               !.table[1].columns = Max(@, Len(ctx.row)),
                               !.table[1].rows = Len(cells)])

fullTokenRules_td_open(ctx) ==
  startTextBlock(startStyle(ctx, {"foregroundColor"}))

fullTokenRules_th_open(ctx) ==
  startTextBlock(startStyle(ctx, {"bold", "foregroundColor"}))

fullTokenRules_td_close(ctx) ==
  IF ctx.text = <<>> THEN Fail(ctx, "Assertion failed")
  ELSE LET c1 == endStyle(ctx)
       IN IF c1.error # "" THEN c1
          ELSE startTextBlock([c1 EXCEPT !.row = Append(@, c1.text[1])])

(***************************************************************************)
(* Presentation introspection (layout/presentation_helpers.ts).            *)
(* A presentation is [presentationId, layouts, slides]; a layout is        *)
(* [name, displayName, objectId, placeholders]; a page is                  *)
(* [objectId, pageElements, notesId]; an id of 0 is an undefined id.       *)
(***************************************************************************)
findLayoutIdByName(presentation, name) ==
  LET hits == SelectSeq(presentation.layouts, LAMBDA l : l.name = name)
  IN IF hits = <<>> THEN 0 ELSE hits[1].objectId

findPage(presentation, pageId) ==
  SelectSeq(presentation.slides, LAMBDA page : page.objectId = pageId)

\* found is FALSE when the page does not exist ("Can't find page"); an
\* empty elements sequence is the undefined result
findPlaceholder(presentation, pageId, type) ==
  LET page == findPage(presentation, pageId)
  IN IF page = <<>> THEN [found |-> FALSE, elements |-> <<>>]
     ELSE [found |-> TRUE,
           elements |-> SelectSeq(page[1].pageElements, LAMBDA e : e.type = type)]

findSpeakerNotesObjectId(presentation, pageId) ==
  LET page == findPage(presentation, pageId)
  IN IF page = <<>> THEN 0 ELSE page[1].notesId

(***************************************************************************)
(* Layout matching (layout/match_layout.ts)                                *)
(***************************************************************************)
\* a classification that tries the title-and-body rule before the big-title
\* and two-column rules
classifyBodyFirst(slide) ==
  LET hasTitle == slide.title # <<>>
      hasSubtitle == slide.subtitle # <<>>
      nBodies == Len(slide.bodies)
      big == hasTitle /\ slide.title[1].big
  IN IF hasTitle /\ hasSubtitle /\ nBodies > 0 THEN "SECTION_TITLE_AND_DESCRIPTION"
     ELSE IF hasTitle /\ hasSubtitle THEN "TITLE"
     ELSE IF nBodies > 0 \/ (hasTitle /\ slide.tables # <<>>) THEN "TITLE_AND_BODY"
     ELSE IF hasTitle /\ big /\ nBodies = 0 THEN "MAIN_POINT"
     ELSE IF hasTitle THEN "SECTION_HEADER"
     ELSE "BLANK"

classify(slide) ==
  LET hasTitle == slide.title # <<>>
      hasSubtitle == slide.subtitle # <<>>
      nBodies == Len(slide.bodies)
      big == hasTitle /\ slide.title[1].big
  IN IF hasTitle /\ hasSubtitle /\ nBodies > 0 THEN "SECTION_TITLE_AND_DESCRIPTION"
     ELSE IF hasTitle /\ hasSubtitle THEN "TITLE"
     ELSE IF hasTitle /\ big /\ nBodies = 1 THEN "BIG_NUMBER"
     ELSE IF hasTitle /\ big /\ nBodies = 0 THEN "MAIN_POINT"
     ELSE IF hasTitle /\ nBodies = 2 THEN "TITLE_AND_TWO_COLUMNS"
     ELSE IF nBodies > 0 \/ (hasTitle /\ slide.tables # <<>>) THEN "TITLE_AND_BODY"
     ELSE IF hasTitle THEN "SECTION_HEADER"
     ELSE "BLANK"

\* the names of the layouts of the deck, in deck order
availableLayoutNames(presentation) ==
  [i \in 1..Len(presentation.layouts) |-> presentation.layouts[i].name]

\* the layouts a customLayout value designates: those displayed under it
customLayouts(presentation, slide) ==
  SelectSeq(presentation.layouts,
            LAMBDA l : slide.customLayout # "" /\ l.displayName = slide.customLayout)

\* matchLayout without the fall-back to the first layout of the deck
matchLayoutNoFallback(presentation, slide) ==
  LET custom == customLayouts(presentation, slide)
  IN IF custom # <<>> THEN custom[1].name ELSE classify(slide)

matchLayout(presentation, slide) ==
  LET custom == customLayouts(presentation, slide)
      names == availableLayoutNames(presentation)
      classified == classify(slide)
  IN IF custom # <<>> THEN custom[1].name
     ELSE IF \E i \in 1..Len(names) : names[i] = classified THEN classified
     ELSE IF names # <<>> THEN names[1]
     ELSE classified

(***************************************************************************)
(* Request builder (layout/generic_layout.ts).  A builder state b carries  *)
(* the request list, the slide (the builder writes to it), the uuid        *)
(* counter, the error thrown if any, and a record of the calls of          *)
(* appendInsertTextRequests.                                               *)
(***************************************************************************)
\* the keys of the style object of an updateTextStyle request, in the order
\* the object literal lists them
StyleKeys ==
  <<"bold", "italic", "foregroundColor", "backgroundColor", "strikethrough",
    "underline", "smallCaps", "fontFamily", "fontSize", "link", "baselineOffset">>

\* the style object built from a text run: a key the run does not set holds
\* undefined
StyleObject(textRun) ==
  [i \in 1..Len(StyleKeys) |->
     <<StyleKeys[i], IF StyleKeys[i] \in textRun.attrs THEN "set" ELSE "undefined">>]

\* Array.prototype.join(',')
RECURSIVE Join(_)
Join(fields) ==
  IF fields = <<>> THEN <<>>
  ELSE IF Len(fields) = 1 THEN fields
  ELSE <<fields[1], ",">> \o Join(Tail(fields))

\* object is the sequence of <<key, value>> pairs in Object.keys order
RECURSIVE MaskFields(_)
MaskFields(object) ==
  IF object = <<>> THEN <<>>
  ELSE IF object[1][2] # "undefined" THEN <<object[1][1]>> \o MaskFields(Tail(object))
  ELSE MaskFields(Tail(object))

\* a mask that keeps the keys holding a truthy value
computeShallowFieldMaskTruthy(object) ==
  LET truthy == SelectSeq(object, LAMBDA pair : pair[2] = "set")
  IN Join([i \in 1..Len(truthy) |-> truthy[i][1]])

computeShallowFieldMask(object) == Join(MaskFields(object))

Reverse(seq) == [i \in 1..Len(seq) |-> seq[Len(seq) + 1 - i]]

Throw(b, msg) == [b EXCEPT !.error = msg]

NewBuilder(slide, requests, uuidNext) ==
  [slide |-> slide, requests |-> requests, uuidNext |-> uuidNext, error |-> "",
   detail |-> <<>>, calls |-> <<>>]

\* the TextDefinition a path designates on the slide
TextAt(slide, path) ==
  IF path[1] = "title" THEN slide.title[1]
  ELSE IF path[1] = "subtitle" THEN slide.subtitle[1]
  ELSE IF path[1] = "body" THEN slide.bodies[path[2]].text[1]
  ELSE IF path[1] = "cell" THEN slide.tables[1].cells[path[2]][path[3]]
  ELSE [rawText |-> slide.notes[1], textRuns |-> <<>>, listMarkers |-> <<>>, big |-> FALSE]

\* the slide after _.reverse reversed, in place, the listMarkers of the
\* TextDefinition at path (the notes TextDefinition is a temporary)
WithMarkers(slide, path, markers) ==
  IF path[1] = "title" THEN [slide EXCEPT !.title[1].listMarkers = markers]
  ELSE IF path[1] = "subtitle" THEN [slide EXCEPT !.subtitle[1].listMarkers = markers]
  ELSE IF path[1] = "body" THEN [slide EXCEPT !.bodies[path[2]].text[1].listMarkers = markers]
  ELSE IF path[1] = "cell"
       THEN [slide EXCEPT !.tables[1].cells[path[2]][path[3]].listMarkers = markers]
  ELSE slide

InsertTextRequest(text, locationProps) ==
  [kind |-> "insertText", text |-> text.rawText,
   objectId |-> locationProps.objectId, cellLocation |-> locationProps.cellLocation]

UpdateTextStyleRequest(textRun, locationProps) ==
  [kind |-> "updateTextStyle", startIndex |-> textRun.start, endIndex |-> textRun.end,
   style |-> StyleObject(textRun), fields |-> computeShallowFieldMask(StyleObject(textRun)),
   objectId |-> locationProps.objectId, cellLocation |-> locationProps.cellLocation]

CreateParagraphBulletsRequest(listMarker, locationProps) ==
  [kind |-> "createParagraphBullets",
   startIndex |-> listMarker.start, endIndex |-> listMarker.end,
   bulletPreset |-> IF listMarker.type = "ordered" THEN "NUMBERED_DIGIT_ALPHA_ROMAN"
                                                     ELSE "BULLET_DISC_CIRCLE_SQUARE",
   objectId |-> locationProps.objectId, cellLocation |-> locationProps.cellLocation]

\* the updateTextStyle requests pushed for the runs: one per run whose
\* field mask is not empty
StyleRequests(textRuns, locationProps) ==
  LET all == [i \in 1..Len(textRuns) |-> UpdateTextStyleRequest(textRuns[i], locationProps)]
  IN SelectSeq(all, LAMBDA request : Len(request.fields) > 0)

\* appendInsertTextRequests pushing the bullets before the text they cover
appendInsertTextRequestsBulletsFirst(b, path, locationProps) ==
  IF b.error # "" THEN b
  ELSE LET text == TextAt(b.slide, path)
           reversed == Reverse(text.listMarkers)
           bullets == [i \in 1..Len(reversed) |->
                         CreateParagraphBulletsRequest(reversed[i], locationProps)]
           pushed == bullets \o <<InsertTextRequest(text, locationProps)>>
                       \o StyleRequests(text.textRuns, locationProps)
       IN [b EXCEPT !.requests = @ \o pushed,
                    !.slide = WithMarkers(@, path, reversed),
                    !.calls = Append(@, [text |-> text, locationProps |-> locationProps,
                                          first |-> Len(b.requests) + 1,
                                          count |-> Len(pushed)])]

appendInsertTextRequests(b, path, locationProps) ==
  IF b.error # "" THEN b
  ELSE LET text == TextAt(b.slide, path)
           reversed == Reverse(text.listMarkers)
           bullets == [i \in 1..Len(reversed) |->
                         CreateParagraphBulletsRequest(reversed[i], locationProps)]
           pushed == <<InsertTextRequest(text, locationProps)>>
                       \o StyleRequests(text.textRuns, locationProps) \o bullets
       IN [b EXCEPT !.requests = @ \o pushed,
                    !.slide = WithMarkers(@, path, reversed),
                    !.calls = Append(@, [text |-> text, locationProps |-> locationProps,
                                          first |-> Len(b.requests) + 1,
                                          count |-> Len(pushed)])]

NoCell == <<>>

\* appendFillPlaceholderTextRequest with a placeholder type: the first
\* placeholder of that type on the page of the slide
FillByType(b, path, present, presentation, type) ==
  IF b.error # "" \/ ~present THEN b
  ELSE IF b.slide.objectId = 0 THEN Throw(b, "Assertion failed")
  ELSE LET pageElements == findPlaceholder(presentation, b.slide.objectId, type)
       IN IF ~pageElements.found THEN Throw(b, "Can't find page")
          ELSE IF pageElements.elements = <<>> THEN b
          ELSE appendInsertTextRequests(b, path,
                 [objectId |-> pageElements.elements[1].objectId, cellLocation |-> NoCell])

\* appendFillPlaceholderTextRequest with a page element
FillElement(b, path, present, placeholder) ==
  IF b.error # "" \/ ~present THEN b
  ELSE appendInsertTextRequests(b, path,
         [objectId |-> placeholder.objectId, cellLocation |-> NoCell])

\* the cells of the table in row-major order, as <<row, column>> pairs
\* counted from 1
RECURSIVE CellsFrom(_, _, _)
CellsFrom(cells, r, c) ==
  IF r > Len(cells) THEN <<>>
  ELSE IF c > Len(cells[r]) THEN CellsFrom(cells, r + 1, 1)
  ELSE <<<<r, c>>>> \o CellsFrom(cells, r, c + 1)

RECURSIVE FillCells(_, _, _)
FillCells(b, tableId, todo) ==
  IF todo = <<>> THEN b
  ELSE FillCells(
         appendInsertTextRequests(b, <<"cell", todo[1][1], todo[1][2]>>,
           [objectId |-> tableId,
            cellLocation |-> <<todo[1][1] - 1, todo[1][2] - 1>>]),
         tableId, Tail(todo))

\* appendCreateTableRequests sizing the table columns x rows
appendCreateTableRequestsSwapped(b) ==
  IF b.error # "" THEN b
  ELSE IF Len(b.slide.tables) > 1
       THEN Throw(b, "Multiple tables per slide are not supported.")
  ELSE LET table == b.slide.tables[1]
           tableId == b.uuidNext
           created == [b EXCEPT !.uuidNext = @ + 1,
                                !.requests = Append(@,
                                   [kind |-> "createTable", objectId |-> tableId,
                                    pageObjectId |-> b.slide.objectId,
                                    rows |-> table.columns, columns |-> table.rows])]
       IN FillCells(created, tableId, CellsFrom(table.cells, 1, 1))

\* appendCreateTableRequests without the check of tables.length: the first
\* table is created, the others dropped
appendCreateTableRequestsFirstOnly(b) ==
  IF b.error # "" THEN b
  ELSE LET table == b.slide.tables[1]
           tableId == b.uuidNext
           created == [b EXCEPT !.uuidNext = @ + 1,
                                !.requests = Append(@,
                                   [kind |-> "createTable", objectId |-> tableId,
                                    pageObjectId |-> b.slide.objectId,
                                    rows |-> table.rows, columns |-> table.columns])]
       IN FillCells(created, tableId, CellsFrom(table.cells, 1, 1))

appendCreateTableRequests(b) ==
  IF b.error # "" THEN b
  ELSE IF Len(b.slide.tables) > 1
       THEN Throw(b, "Multiple tables per slide are not supported.")
  ELSE LET table == b.slide.tables[1]
           tableId == b.uuidNext
           created == [b EXCEPT !.uuidNext = @ + 1,
                                !.requests = Append(@,
                                   [kind |-> "createTable", objectId |-> tableId,
                                    pageObjectId |-> b.slide.objectId,
                                    rows |-> table.rows, columns |-> table.columns])]
       IN FillCells(created, tableId, CellsFrom(table.cells, 1, 1))

RECURSIVE FillBodies(_, _, _, _)
FillBodies(b, bodyElements, i, bodyCount) ==
  IF i > bodyCount THEN b
  ELSE FillBodies(FillElement(b, <<"body", i>>, b.slide.bodies[i].text # <<>>,
                              bodyElements[i]),
                  bodyElements, i + 1, bodyCount)

\* appendBodies refusing a slide that has more bodies than the page has
\* BODY placeholders
appendBodiesStrict(b, presentation) ==
  IF b.error # "" THEN b
  ELSE IF b.slide.objectId = 0 THEN Throw(b, "Assertion failed")
  ELSE LET bodyElements == findPlaceholder(presentation, b.slide.objectId, "BODY")
       IN IF ~bodyElements.found THEN Throw(b, "Can't find page")
          ELSE IF Len(bodyElements.elements) < Len(b.slide.bodies)
               THEN Throw(b, "Assertion failed")
          ELSE FillBodies(b, bodyElements.elements, 1, Len(b.slide.bodies))

appendBodies(b, presentation) ==
  IF b.error # "" THEN b
  ELSE IF b.slide.objectId = 0 THEN Throw(b, "Assertion failed")
  ELSE LET bodyElements == findPlaceholder(presentation, b.slide.objectId, "BODY")
       IN IF ~bodyElements.found THEN Throw(b, "Can't find page")
          ELSE FillBodies(b, bodyElements.elements, 1,
                          Min(Len(bodyElements.elements), Len(b.slide.bodies)))

appendNotes(b, presentation) ==
  IF b.error # "" \/ b.slide.notes = <<>> THEN b
  ELSE IF b.slide.objectId = 0 THEN Throw(b, "Assertion failed")
  ELSE appendInsertTextRequests(b, <<"notes">>,
         [objectId |-> findSpeakerNotesObjectId(presentation, b.slide.objectId),
          cellLocation |-> NoCell])

appendContentRequests(b, presentation) ==
  LET b1 == FillByType(b, <<"title">>, b.slide.title # <<>>, presentation, "TITLE")
      b2 == FillByType(b1, <<"title">>, b1.slide.title # <<>>, presentation, "CENTERED_TITLE")
      b3 == FillByType(b2, <<"subtitle">>, b2.slide.subtitle # <<>>, presentation, "SUBTITLE")
      b4 == IF b3.slide.tables # <<>> THEN appendCreateTableRequests(b3) ELSE b3
      b5 == appendBodies(b4, presentation)
  IN appendNotes(b5, presentation)

\* Array.prototype.join(', ')
RECURSIVE JoinWithCommaSpace(_)
JoinWithCommaSpace(names) ==
  IF names = <<>> THEN <<>>
  ELSE IF Len(names) = 1 THEN names
  ELSE <<names[1], ", ">> \o JoinWithCommaSpace(Tail(names))

\* the names of the layouts of the deck, those without a name left out
availableLayouts(presentation) ==
  LET named == SelectSeq(presentation.layouts, LAMBDA l : l.name # "")
  IN [i \in 1..Len(named) |-> named[i].name]

\* the text of the error after "Unable to find layout": the name looked
\* for, then the available names or 'none'
errorMessage(name, presentation) ==
  LET joined == JoinWithCommaSpace(availableLayouts(presentation))
  IN <<name, ". Available layouts in this presentation: ">>
       \o (IF joined = <<>> THEN <<"none">> ELSE joined)

\* appendCreateSlideRequest pushing the request without storing the new id
\* on the slide
appendCreateSlideRequestUnstored(b, name, presentation) ==
  IF b.error # "" THEN b
  ELSE LET layoutId == findLayoutIdByName(presentation, name)
       IN IF layoutId = 0
          THEN [Throw(b, "Unable to find layout") EXCEPT
                  !.detail = errorMessage(name, presentation)]
          ELSE [b EXCEPT !.uuidNext = @ + 1,
                         !.requests = Append(@, [kind |-> "createSlide",
                                                 layoutId |-> layoutId,
                                                 objectId |-> b.uuidNext])]

\* appendCreateSlideRequest allocating the slide's id before it looks the
\* layout up
appendCreateSlideRequestEarlyId(b, name, presentation) ==
  IF b.error # "" THEN b
  ELSE LET layoutId == findLayoutIdByName(presentation, name)
           c == [b EXCEPT !.slide.objectId = b.uuidNext, !.uuidNext = @ + 1]
       IN IF layoutId = 0
          THEN [Throw(c, "Unable to find layout") EXCEPT
                  !.detail = errorMessage(name, presentation)]
          ELSE [c EXCEPT !.requests = Append(@, [kind |-> "createSlide",
                                                 layoutId |-> layoutId,
                                                 objectId |-> b.uuidNext])]

appendCreateSlideRequest(b, name, presentation) ==
  IF b.error # "" THEN b
  ELSE LET layoutId == findLayoutIdByName(presentation, name)
       IN IF layoutId = 0
          THEN [Throw(b, "Unable to find layout") EXCEPT
                  !.detail = errorMessage(name, presentation)]
          ELSE [b EXCEPT !.slide.objectId = b.uuidNext,
                         !.uuidNext = @ + 1,
                         !.requests = Append(@, [kind |-> "createSlide",
                                                 layoutId |-> layoutId,
                                                 objectId |-> b.uuidNext])]

(***************************************************************************)
(* SlideGenerator (slide_generator.ts).  A pass state g carries this.slides*)
(* and the batch being built.                                              *)
(***************************************************************************)
NewPass(slides, uuidNext) ==
  [slides |-> slides, requests |-> <<>>, uuidNext |-> uuidNext, error |-> "",
   detail |-> <<>>, calls |-> <<>>]

\* the builder working on a copy of the slide: this.slides keeps the slide
\* as it was
AfterSlideCopied(g, i, b) ==
  [slides |-> g.slides, requests |-> b.requests,
   uuidNext |-> b.uuidNext, error |-> b.error, detail |-> b.detail,
   calls |-> g.calls \o b.calls]

\* g after the builder of slide i has run
AfterSlide(g, i, b) ==
  [slides |-> [g.slides EXCEPT ![i] = b.slide], requests |-> b.requests,
   uuidNext |-> b.uuidNext, error |-> b.error, detail |-> b.detail,
   calls |-> g.calls \o b.calls]

\* pass 1 creating each slide under its classified name, whatever the deck
RECURSIVE createSlidesFromClassified(_, _, _)
createSlidesFromClassified(g, presentation, i) ==
  IF i > Len(g.slides) \/ g.error # "" THEN g
  ELSE LET b == appendCreateSlideRequest(NewBuilder(g.slides[i], g.requests, g.uuidNext),
                                         classify(g.slides[i]), presentation)
       IN createSlidesFromClassified(AfterSlide(g, i, b), presentation, i + 1)

RECURSIVE createSlidesFrom(_, _, _)
createSlidesFrom(g, presentation, i) ==
  IF i > Len(g.slides) \/ g.error # "" THEN g
  ELSE LET layout == matchLayout(presentation, g.slides[i])
           b == appendCreateSlideRequest(NewBuilder(g.slides[i], g.requests, g.uuidNext),
                                         layout, presentation)
       IN createSlidesFrom(AfterSlide(g, i, b), presentation, i + 1)

createSlides(slides, presentation, uuidNext) ==
  createSlidesFrom(NewPass(slides, uuidNext), presentation, 1)

\* pass 2 walking this.slides from the last slide to the first
RECURSIVE populateSlidesFromLast(_, _, _)
populateSlidesFromLast(g, presentation, i) ==
  IF i > Len(g.slides) \/ g.error # "" THEN g
  ELSE LET at == Len(g.slides) + 1 - i
           b == appendContentRequests(NewBuilder(g.slides[at], g.requests, g.uuidNext),
                                      presentation)
       IN populateSlidesFromLast(AfterSlide(g, at, b), presentation, i + 1)

RECURSIVE populateSlidesFrom(_, _, _)
populateSlidesFrom(g, presentation, i) ==
  IF i > Len(g.slides) \/ g.error # "" THEN g
  ELSE LET b == appendContentRequests(NewBuilder(g.slides[i], g.requests, g.uuidNext),
                                      presentation)
       IN populateSlidesFrom(AfterSlide(g, i, b), presentation, i + 1)

populateSlides(slides, presentation, uuidNext) ==
  populateSlidesFrom(NewPass(slides, uuidNext), presentation, 1)

(***************************************************************************)
(* googleAuth (services/googleAuth.ts).  The state is a record: tokenClient *)
(* (TRUE once initTokenClient was called), cachedToken ("" is null),        *)
(* stored (the localStorage item, <<>> if absent), gsi (window.google is    *)
(* available), polling (a checkGsiLoaded timer is set), waiting (a          *)
(* getAccessToken awaits initGoogleAuth), pending (requestAccessToken was   *)
(* called and not answered), revoked (the tokens passed to revoke), now     *)
(* (Date.now()), op (the last function called), returned (what the last     *)
(* getAccessToken resolved to, with the time of the return) and             *)
(* cachedExpiresAt (the expires_at the token in cachedToken was issued or   *)
(* loaded with).                                                            *)
(***************************************************************************)
\* the 5 minute buffer of the validity check, in milliseconds
BufferMs == 300000

\* the step of the clock, in milliseconds
TickMs == 300000

\* the lifetimes (expires_in, in seconds) of the tokens Google issues
ExpiresIn == {600, 3600}

\* pdfWorker once its module has run: no instance, the initializePyodide()
\* call of the last line waiting for its first promise, no message received
WorkerLoaded ==
  [pyodideInstance |-> 0, inits |-> <<"loadPyodide">>, handlers |-> <<>>, received |-> 0]

NoAuth ==
  [tokenClient |-> FALSE, cachedToken |-> "", cachedExpiresAt |-> 0, stored |-> <<>>,
   gsi |-> FALSE, polling |-> FALSE, waiting |-> FALSE, pending |-> FALSE,
   revoked |-> <<>>, now |-> 0, op |-> "", returned |-> <<>>]

\* the localStorage item: what JSON.stringify(tokenToStore) keeps, or a
\* text that does not parse
StoredToken(token, expiresAt, parses) ==
  [access_token |-> token, expires_at |-> expiresAt, parses |-> parses]

\* initGoogleAuth, the cached token: loaded if it is valid for more than
\* the buffer, removed from localStorage otherwise
loadSavedToken(a) ==
  IF a.stored = <<>> THEN a
  ELSE LET tokenData == a.stored[1]
       IN IF tokenData.parses /\ tokenData.expires_at # 0
             /\ tokenData.expires_at > a.now + BufferMs
          THEN [a EXCEPT !.cachedToken = tokenData.access_token,
                         !.cachedExpiresAt = tokenData.expires_at]
          ELSE [a EXCEPT !.stored = <<>>]

\* initGoogleAuth up to its first checkGsiLoaded(): it has resolved iff
\* tokenClient is set in the result
initGoogleAuth(a) ==
  IF a.tokenClient THEN a
  ELSE LET loaded == loadSavedToken(a)
       IN IF loaded.gsi THEN [loaded EXCEPT !.tokenClient = TRUE]
          ELSE [loaded EXCEPT !.polling = TRUE]

\* getAccessToken after await initGoogleAuth(): the cached token is
\* returned, or a new one is requested
getAccessTokenAfterInit(a) ==
  IF a.cachedToken # ""
  THEN [a EXCEPT !.returned = <<[token |-> a.cachedToken, cached |-> TRUE, at |-> a.now,
                                 expiresAt |-> a.cachedExpiresAt]>>]
  ELSE [a EXCEPT !.pending = TRUE, !.returned = <<>>]

\* signOut: the item is removed and cachedToken set to null, and then
\* cachedToken is tested to decide on the revocation
signOut(a) ==
  LET cleared == [a EXCEPT !.stored = <<>>, !.cachedToken = "", !.cachedExpiresAt = 0]
  IN IF cleared.gsi /\ cleared.cachedToken # ""
     THEN [cleared EXCEPT !.revoked = Append(@, cleared.cachedToken)]
     ELSE cleared

(***************************************************************************)
(* State                                                                   *)
(***************************************************************************)
VARIABLES
  auth,         \* googleAuth: the module, localStorage, the clock and Google's script
  worker,       \* pdfWorker: pyodideInstance, the pending async calls, the results posted
  dialect,      \* the documents considered: token budget and token payloads
  phase,        \* position of extractSlides / generateFromMarkdown
  context,      \* the Context of extractSlides
  open,         \* tokenizer: the containers opened and not yet closed
  ntok,         \* tokens handed to processTokens so far
  nhr,          \* hr tokens among them, not counting one at index 0
  error,        \* message of the error thrown, "" if none
  slides,       \* SlideGenerator.slides
  presentation, \* SlideGenerator.presentation
  uuidNext,     \* uuid(): the next fresh id
  net,          \* the remote calls made so far, in order, with their outcome
  server,       \* the pages of the remote document
  calls,        \* the calls logged: appendInsertTextRequests of pass 2, or those of generateSlides
  input,        \* the argument of a function called on its own
  output        \* its result

tokenizerVars == <<open, ntok, nhr>>

generatorVars == <<slides, presentation, uuidNext, net, server, calls>>

calledVars == <<input, output>>

vars == <<auth, worker, dialect, phase, context, open, ntok, nhr, error, slides, presentation,
          uuidNext, net, server, calls, input, output>>

\* every payload, MaxTokens tokens
FullDialect ==
  [tokens |-> MaxTokens, headings |-> HeadingKinds, paragraphs |-> ParagraphKinds,
   lists |-> ListTags]

(***************************************************************************)
(* Tokenizer (parser/parser.ts, markdown-it): streams are well nested.     *)
(***************************************************************************)
\* a list that already holds an item is written in upper case
ListsWithItem == {"UL", "OL"}

WithItem(kind) == IF kind \in {"ul", "UL"} THEN "UL" ELSE "OL"

TagOfList(kind) == IF kind \in {"ul", "UL"} THEN "ul" ELSE "ol"

BlockContainers == {"li", "bq"}

\* "p" is a paragraph without content yet, "P" one that may close: it has
\* content, or it only carries attributes ({.column}, {layout=...})
InlineContainers == {"h1", "h2", "h3", "p", "P", "td", "th", "em", "strong"}

\* the containers after an inline token was added to the innermost one
Filled(stack) ==
  IF stack # <<>> /\ Last(stack) = "p" THEN Append(Front(stack), "P") ELSE stack

\* the innermost open container is one of kinds
TopIn(kinds) == IF open = <<>> THEN FALSE ELSE Last(open) \in kinds

AtBlockLevel == IF open = <<>> THEN TRUE ELSE Last(open) \in BlockContainers

AtInlineLevel == IF open = <<>> THEN FALSE ELSE Last(open) \in InlineContainers

\* an opening token leaves room for its own close and the closes still owed
Room(n) == ntok + Len(open) + n <= dialect.tokens

CanOpen == Room(2)

CanLeaf == Room(1)

Extracting == phase = "extract" /\ context.error = ""

\* processTokens without the special case of the leading hr
processTokensEveryRule(ctx, type, index, ruled) == ruled

\* processTokens: an hr at index 0 is skipped, any other token goes to its
\* rule; ruled is the context the rule of the token returns
processTokens(ctx, type, index, ruled) ==
  IF type = "hr" /\ index = 0 THEN ctx ELSE ruled

Step(type, ruled, newOpen) ==
  LET ctx == processTokens(context, type, ntok, ruled)
  IN /\ context' = ctx
     /\ open' = newOpen
     /\ ntok' = ntok + 1
     /\ nhr' = IF type = "hr" /\ ntok > 0 THEN nhr + 1 ELSE nhr
     /\ phase' = IF ctx.error # "" THEN "failed" ELSE phase
     /\ error' = ctx.error
     /\ UNCHANGED <<auth, worker, dialect, calledVars, generatorVars>>

NoPresentation == [presentationId |-> 0, layouts |-> <<>>, slides |-> <<>>]

\* extractSlides is called on its own
InitExtract ==
  /\ auth = NoAuth
  /\ worker = WorkerLoaded
  /\ dialect = FullDialect
  /\ phase = "extract"
  /\ context = NewContext
  /\ open = <<>>
  /\ ntok = 0
  /\ nhr = 0
  /\ error = ""
  /\ slides = <<>>
  /\ presentation = NoPresentation
  /\ uuidNext = NewContext.uuidNext
  /\ net = <<>>
  /\ server = <<>>
  /\ calls = <<>>
  /\ input = <<>>
  /\ output = <<>>

(***************************************************************************)
(* One action per token kind: processTokens hands the token to its rule.   *)
(***************************************************************************)
Tok_heading_open ==
  /\ Extracting /\ AtBlockLevel /\ CanOpen
  /\ \E h \in dialect.headings :
       Step("heading_open", fullTokenRules_heading_open(context, h.big), Append(open, h.tag))

Tok_heading_close ==
  /\ Extracting /\ TopIn(HeadingTags)
  /\ Step("heading_close", fullTokenRules_heading_close(context, Last(open)), Front(open))

Tok_paragraph_open ==
  /\ Extracting /\ AtBlockLevel
  /\ \E p \in dialect.paragraphs :
       /\ Room(IF p.column \/ p.layout # "" THEN 2 ELSE 3)
       /\ Step("paragraph_open", inlineTokenRules_paragraph_open(context, p.column, p.layout),
            Append(open, IF p.column \/ p.layout # "" THEN "P" ELSE "p"))

Tok_paragraph_close ==
  /\ Extracting /\ TopIn({"P"})
  /\ Step("paragraph_close", inlineTokenRules_paragraph_close(context), Front(open))

Tok_text ==
  /\ Extracting /\ AtInlineLevel /\ CanLeaf
  /\ Step("text", inlineTokenRules_text(context), Filled(open))

\* processTokens skips an hr at index 0
Tok_hr ==
  /\ Extracting /\ AtBlockLevel /\ CanLeaf
  /\ Step("hr", fullTokenRules_hr(context), open)

Tok_code_inline ==
  /\ Extracting /\ AtInlineLevel /\ CanLeaf
  /\ Step("code_inline", inlineTokenRules_code_inline(context), Filled(open))

Tok_fence ==
  /\ Extracting /\ AtBlockLevel /\ CanLeaf
  /\ Step("fence", inlineTokenRules_fence(context), open)

Tok_em_open ==
  /\ Extracting /\ AtInlineLevel /\ CanOpen
  /\ Step("em_open", inlineTokenRules_em_open(context), Append(Filled(open), "em"))

Tok_em_close ==
  /\ Extracting /\ TopIn({"em"})
  /\ Step("em_close", inlineTokenRules_em_close(context), Front(open))

Tok_strong_open ==
  /\ Extracting /\ AtInlineLevel /\ CanOpen
  /\ Step("strong_open", inlineTokenRules_strong_open(context), Append(Filled(open), "strong"))

Tok_strong_close ==
  /\ Extracting /\ TopIn({"strong"})
  /\ Step("strong_close", inlineTokenRules_strong_close(context), Front(open))

\* bullet_list_open and ordered_list_open share one rule
Tok_list_open ==
  /\ Extracting /\ AtBlockLevel /\ Room(4)
  /\ \E tag \in dialect.lists :
       Step("list_open", inlineTokenRules_list_open(context, tag), Append(open, tag))

\* a list holds at least one item
Tok_list_close ==
  /\ Extracting /\ TopIn(ListsWithItem)
  /\ Step("list_close", inlineTokenRules_list_close(context, TagOfList(Last(open))), Front(open))

Tok_list_item_open ==
  /\ Extracting /\ TopIn(ListTags \cup ListsWithItem) /\ CanOpen
  /\ Step("list_item_open", inlineTokenRules_list_item_open(context), Append(open, "li"))

Tok_list_item_close ==
  /\ Extracting /\ TopIn({"li"})
  /\ Step("list_item_close", inlineTokenRules_list_item_close(context),
          Append(Front(Front(open)), WithItem(open[Len(open) - 1])))

Tok_table_open ==
  /\ Extracting /\ AtBlockLevel
  /\ Room(6)
  /\ Step("table_open", fullTokenRules_table_open(context), Append(open, "table"))

\* a table holds at least its header row
Tok_table_close ==
  /\ Extracting /\ TopIn({"table"})
  /\ context.table # <<>> /\ context.table[1].rows > 0
  /\ Step("table_close", fullTokenRules_table_close(context), Front(open))

Tok_tr_open ==
  /\ Extracting /\ TopIn({"table"})
  /\ Room(4)
  /\ Step("tr_open", fullTokenRules_tr_open(context), Append(open, "tr"))

\* a row holds at least one cell
Tok_tr_close ==
  /\ Extracting /\ TopIn({"tr"}) /\ Len(context.row) > 0
  /\ Step("tr_close", fullTokenRules_tr_close(context), Front(open))

Tok_td_open ==
  /\ Extracting /\ TopIn({"tr"}) /\ CanOpen
  /\ Step("td_open", fullTokenRules_td_open(context), Append(open, "td"))

Tok_th_open ==
  /\ Extracting /\ TopIn({"tr"}) /\ CanOpen
  /\ Step("th_open", fullTokenRules_th_open(context), Append(open, "th"))

\* td_close and th_close share one rule
Tok_td_close ==
  /\ Extracting /\ TopIn({"td", "th"})
  /\ Step("td_close", fullTokenRules_td_close(context), Front(open))

\* extractSlides: context.done(), return context.slides
Done ==
  /\ Extracting /\ open = <<>>
  /\ context' = done(context)
  /\ slides' = context'.slides
  /\ uuidNext' = context'.uuidNext
  /\ phase' = "extracted"
  /\ UNCHANGED <<auth, worker, dialect, calledVars, tokenizerVars, error, presentation, net, server, calls>>

(***************************************************************************)
(* generateFromMarkdown (slide_generator.ts)                               *)
(***************************************************************************)
\* the decks a generator is constructed on
TitleAndBody ==
  [name |-> "TITLE_AND_BODY", displayName |-> "Title and Body", objectId |-> 91,
   placeholders |-> <<"TITLE", "BODY">>]

Decks ==
  {[presentationId |-> 0, layouts |-> <<>>, slides |-> <<>>],
   [presentationId |-> 1, layouts |-> <<>>, slides |-> <<>>],
   [presentationId |-> 1, layouts |-> <<TitleAndBody>>, slides |-> <<>>]}

\* a narrow dialect, for documents of up to MaxGenTokens tokens
GenDialect ==
  [tokens |-> MaxGenTokens,
   headings |-> {[tag |-> "h1", big |-> FALSE]},
   paragraphs |-> {[column |-> FALSE, layout |-> ""]},
   lists |-> {"ul"}]

\* the dialect of documents made of tables
TableDialect == [GenDialect EXCEPT !.tokens = MaxTableTokens]

InitGenOf(documents) ==
  /\ auth = NoAuth
  /\ worker = WorkerLoaded
  /\ dialect = documents
  /\ phase = "idle"
  /\ context = NewContext
  /\ open = <<>>
  /\ ntok = 0
  /\ nhr = 0
  /\ error = ""
  /\ slides = <<>>
  /\ presentation \in Decks
  /\ uuidNext = NewContext.uuidNext
  /\ net = <<>>
  /\ server = <<>>
  /\ calls = <<>>
  /\ input = <<>>
  /\ output = <<>>

InitGen == InitGenOf(GenDialect)

InitGenTable == InitGenOf(TableDialect)

Fetch(call, requests) == [call |-> call, status |-> "pending", requests |-> requests]

\* the last call of the log, answered
Answered(log, status) == [log EXCEPT ![Len(log)].status = status]

\* the page the remote service makes for a createSlide request
PageFor(request, layouts) ==
  LET layout == SelectSeq(layouts, LAMBDA l : l.objectId = request.layoutId)[1]
  IN [objectId |-> request.objectId,
      pageElements |-> [j \in 1..Len(layout.placeholders) |->
                          [objectId |-> 10 * request.objectId + j,
                           type |-> layout.placeholders[j]]],
      notesId |-> 10 * request.objectId]

\* assert(this.presentation?.presentationId), then extractSlides starts
Begin ==
  /\ phase = "idle"
  /\ IF presentation.presentationId = 0
     THEN phase' = "failed" /\ error' = "Assertion failed"
     ELSE phase' = "extract" /\ error' = error
  /\ UNCHANGED <<auth, worker, dialect, calledVars, context, tokenizerVars, generatorVars>>

\* await this.updatePresentation(this.createSlides()): the batch is built
\* and, unless it is empty, sent
CreateSlides ==
  /\ phase = "extracted"
  /\ LET g == createSlides(slides, presentation, uuidNext)
     IN IF g.error # ""
        THEN /\ phase' = "failed" /\ error' = g.error
             /\ UNCHANGED <<slides, uuidNext, net>>
        ELSE /\ slides' = g.slides
             /\ uuidNext' = g.uuidNext
             /\ error' = error
             /\ IF g.requests = <<>>
                THEN phase' = "reloading" /\ net' = Append(net, Fetch("reload", <<>>))
                ELSE phase' = "creating" /\ net' = Append(net, Fetch("create", g.requests))
  /\ UNCHANGED <<auth, worker, dialect, calledVars, context, tokenizerVars, presentation, server, calls>>

\* updatePresentation not looking at response.ok: the reload follows a
\* rejected create batch too
CreateResponseUnchecked ==
  /\ phase = "creating"
  /\ \E ok \in BOOLEAN :
       /\ server' = IF ok
                    THEN server \o [i \in 1..Len(Last(net).requests) |->
                                     PageFor(Last(net).requests[i], presentation.layouts)]
                    ELSE server
       /\ net' = Append(Answered(net, IF ok THEN "ok" ELSE "failed"), Fetch("reload", <<>>))
       /\ phase' = "reloading"
       /\ error' = error
  /\ UNCHANGED <<auth, worker, dialect, calledVars, context, tokenizerVars, slides, presentation, uuidNext,
                 calls>>

\* the batchUpdate of pass 1 is answered; on success reloadPresentation
\* sends its request
CreateResponse ==
  /\ phase = "creating"
  /\ \E ok \in BOOLEAN :
       IF ok
       THEN /\ server' = server \o [i \in 1..Len(Last(net).requests) |->
                                      PageFor(Last(net).requests[i], presentation.layouts)]
            /\ net' = Append(Answered(net, "ok"), Fetch("reload", <<>>))
            /\ phase' = "reloading"
            /\ error' = error
       ELSE /\ net' = Answered(net, "failed")
            /\ phase' = "failed"
            /\ error' = "Failed to update presentation"
            /\ UNCHANGED server
  /\ UNCHANGED <<auth, worker, dialect, calledVars, context, tokenizerVars, slides, presentation, uuidNext, calls>>

\* the reload is answered: it fails, or it returns the document (possibly
\* one the new slides are not visible in); no slides is an error
ReloadResponse ==
  /\ phase = "reloading"
  /\ \E outcome \in {"failed", "ok", "stale"} :
       IF outcome = "failed"
       THEN /\ net' = Answered(net, "failed")
            /\ phase' = "failed"
            /\ error' = "Failed to reload presentation"
            /\ UNCHANGED presentation
       ELSE /\ net' = Answered(net, "ok")
            /\ presentation' =
                 [presentation EXCEPT !.slides = IF outcome = "ok" THEN server ELSE <<>>]
            /\ IF presentation'.slides = <<>>
               THEN phase' = "failed" /\ error' = "Failed to create slides"
               ELSE phase' = "waiting" /\ error' = error
  /\ UNCHANGED <<auth, worker, dialect, calledVars, context, tokenizerVars, slides, uuidNext, server, calls>>

\* after the timer: await this.updatePresentation(this.populateSlides())
PopulateSlides ==
  /\ phase = "waiting"
  /\ LET g == populateSlides(slides, presentation, uuidNext)
     IN IF g.error # ""
        THEN /\ phase' = "failed" /\ error' = g.error
             /\ UNCHANGED <<slides, uuidNext, net, calls>>
        ELSE /\ slides' = g.slides
             /\ uuidNext' = g.uuidNext
             /\ calls' = g.calls
             /\ error' = error
             /\ IF g.requests = <<>>
                THEN phase' = "done" /\ net' = net
                ELSE phase' = "populating" /\ net' = Append(net, Fetch("populate", g.requests))
  /\ UNCHANGED <<auth, worker, dialect, calledVars, context, tokenizerVars, presentation, server>>

\* the batchUpdate of pass 2 is answered
PopulateResponse ==
  /\ phase = "populating"
  /\ \E ok \in BOOLEAN :
       IF ok
       THEN net' = Answered(net, "ok") /\ phase' = "done" /\ error' = error
       ELSE /\ net' = Answered(net, "failed")
            /\ phase' = "failed"
            /\ error' = "Failed to update presentation"
  /\ UNCHANGED <<auth, worker, dialect, calledVars, context, tokenizerVars, slides, presentation, uuidNext, server,
                 calls>>

(***************************************************************************)
(* computeShallowFieldMask and matchLayout called on their own              *)
(***************************************************************************)
InitCalled ==
  /\ auth = NoAuth
  /\ worker = WorkerLoaded
  /\ dialect = FullDialect
  /\ context = NewContext
  /\ open = <<>>
  /\ ntok = 0
  /\ nhr = 0
  /\ error = ""
  /\ slides = <<>>
  /\ presentation = NoPresentation
  /\ uuidNext = NewContext.uuidNext
  /\ net = <<>>
  /\ server = <<>>
  /\ calls = <<>>
  /\ output = <<>>

\* the kinds of value a key of a style object holds
ValueKinds == {"undefined", "null", "false", "0", "empty", "set"}

MaskKeys == {"bold", "italic", "link", "fontSize"}

\* objects of up to MaxKeys keys, as <<key, value>> pairs in enumeration order
Objects ==
  {object \in UNION {[1..n -> MaskKeys \X ValueKinds] : n \in 0..MaxKeys} :
     \A i, j \in 1..Len(object) : i # j => object[i][1] # object[j][1]}

InitMask == InitCalled /\ phase = "mask" /\ input \in Objects

Call_computeShallowFieldMask ==
  /\ phase = "mask"
  /\ output' = computeShallowFieldMask(input)
  /\ phase' = "masked"
  /\ UNCHANGED <<auth, worker, dialect, context, tokenizerVars, error, generatorVars, input>>

SpecMask == InitMask /\ [][Call_computeShallowFieldMask]_vars

\* the layouts decks are made of
LayoutPool ==
  {TitleAndBody,
   [name |-> "BLANK", displayName |-> "Blank", objectId |-> 92, placeholders |-> <<>>],
   [name |-> "TITLE", displayName |-> "Title", objectId |-> 93,
    placeholders |-> <<"CENTERED_TITLE", "SUBTITLE">>],
   [name |-> "CUSTOM_LAYOUT", displayName |-> "Custom Layout", objectId |-> 94,
    placeholders |-> <<"TITLE">>]}

\* decks of up to MaxLayouts layouts, no layout twice
LayoutLists ==
  {layouts \in UNION {[1..n -> LayoutPool] : n \in 0..MaxLayouts} :
     \A i, j \in 1..Len(layouts) : i # j => layouts[i] # layouts[j]}

\* slides of every shape the classification tells apart
ShapedSlide(title, big, subtitle, nBodies, nTables, customLayout) ==
  [NewSlide(0) EXCEPT
     !.title = IF title THEN <<[NewTextBlock EXCEPT !.big = big]>> ELSE <<>>,
     !.subtitle = IF subtitle THEN <<NewTextBlock>> ELSE <<>>,
     !.bodies = [i \in 1..nBodies |-> [text |-> <<NewTextBlock>>]],
     !.tables = [i \in 1..nTables |-> [rows |-> 0, columns |-> 0, cells |-> <<>>]],
     !.customLayout = customLayout]

ShapedSlides ==
  {ShapedSlide(title, big, subtitle, nBodies, nTables, customLayout) :
     title \in BOOLEAN, big \in BOOLEAN, subtitle \in BOOLEAN, nBodies \in 0..2,
     nTables \in 0..1,
     customLayout \in {"", "Title and Body", "Custom Layout", "Non Existent Layout"}}

InitLayout ==
  /\ InitCalled
  /\ phase = "match"
  /\ input \in {[presentation |-> [NoPresentation EXCEPT !.layouts = layouts], slide |-> slide] :
                  layouts \in LayoutLists, slide \in ShapedSlides}

Call_matchLayout ==
  /\ phase = "match"
  /\ output' = matchLayout(input.presentation, input.slide)
  /\ phase' = "matched"
  /\ UNCHANGED <<auth, worker, dialect, context, tokenizerVars, error, generatorVars, input>>

SpecLayout == InitLayout /\ [][Call_matchLayout]_vars

\* slides of every shape, without a customLayout, for the classification
ClassifiedSlides ==
  {ShapedSlide(title, big, subtitle, nBodies, nTables, "") :
     title \in BOOLEAN, big \in BOOLEAN, subtitle \in BOOLEAN, nBodies \in 0..MaxBodies,
     nTables \in 0..2}

InitClassify == InitCalled /\ phase = "classify" /\ input \in ClassifiedSlides

Call_classify ==
  /\ phase = "classify"
  /\ output' = classify(input)
  /\ phase' = "classified"
  /\ UNCHANGED <<auth, worker, dialect, context, tokenizerVars, error, generatorVars, input>>

SpecClassify == InitClassify /\ [][Call_classify]_vars

\* the slides compiled: every shape, with the customLayout values of
\* ShapedSlides and with a customLayout no deck has
CompiledSlides ==
  ShapedSlides \cup {[slide EXCEPT !.customLayout = "Missing"] : slide \in ShapedSlides}

InitCompile ==
  /\ InitCalled
  /\ phase = "compile"
  /\ input \in {[presentation |-> [NoPresentation EXCEPT !.layouts = layouts], slide |-> slide] :
                  layouts \in LayoutLists, slide \in CompiledSlides}

\* pass 1 on a document of one slide: matchLayout, then appendCreateSlideRequest
Call_createSlides ==
  /\ phase = "compile"
  /\ output' = createSlides(<<input.slide>>, input.presentation, NewContext.uuidNext)
  /\ phase' = "compiled"
  /\ UNCHANGED <<auth, worker, dialect, context, tokenizerVars, error, generatorVars, input>>

SpecCompile == InitCompile /\ [][Call_createSlides]_vars

\* layouts of a deck that cannot be resolved: one without an objectId, one
\* without a name
UnresolvableLayouts ==
  {[name |-> "SECTION_HEADER", displayName |-> "Section Header", objectId |-> 0,
    placeholders |-> <<"TITLE">>],
   [name |-> "", displayName |-> "Some Layout", objectId |-> 95, placeholders |-> <<>>]}

\* decks of up to MaxLayouts layouts, no layout twice
CreateLayoutLists ==
  {layouts \in UNION {[1..n -> LayoutPool \cup UnresolvableLayouts] : n \in 0..MaxLayouts} :
     \A i, j \in 1..Len(layouts) : i # j => layouts[i] # layouts[j]}

\* the request lists handed to appendCreateSlideRequest: empty, or holding
\* the request of an earlier slide
EarlierRequests == {<<>>, <<[kind |-> "createSlide", layoutId |-> 91, objectId |-> 7]>>}

InitCreate ==
  /\ InitCalled
  /\ phase = "create"
  /\ input \in {[presentation |-> [NoPresentation EXCEPT !.layouts = layouts],
                  slide |-> NewSlide(id), name |-> name, requests |-> requests,
                  uuidNext |-> 8] :
                  layouts \in CreateLayoutLists, id \in {0, 5},
                  name \in {"TITLE", "BLANK", "SECTION_HEADER", "NON_EXISTENT_LAYOUT"},
                  requests \in EarlierRequests}

Call_appendCreateSlideRequest ==
  /\ phase = "create"
  /\ output' = appendCreateSlideRequest(
                  NewBuilder(input.slide, input.requests, input.uuidNext),
                  input.name, input.presentation)
  /\ phase' = "created"
  /\ UNCHANGED <<auth, worker, dialect, context, tokenizerVars, error, generatorVars, input>>

SpecCreate == InitCreate /\ [][Call_appendCreateSlideRequest]_vars

\* decks that may hold a layout with a name and no objectId
NamedLayoutLists ==
  {layouts \in CreateLayoutLists : \A i \in 1..Len(layouts) : layouts[i].name # ""}

InitResolve ==
  /\ InitCalled
  /\ phase = "compile"
  /\ input \in {[presentation |-> [NoPresentation EXCEPT !.layouts = layouts], slide |-> slide] :
                  layouts \in NamedLayoutLists, slide \in ShapedSlides}

SpecResolve == InitResolve /\ [][Call_createSlides]_vars

\* the placeholder types of a page, in page order
PlaceholderLists == UNION {[1..n -> {"TITLE", "BODY"}] : n \in 0..MaxPlaceholders}

Digits == <<"1", "2", "3", "4", "5", "6", "7", "8", "9">>

\* a slide of pass 2: created as page 5, with or without title and notes,
\* nBodies bodies of distinct texts, the body at index blank (if any)
\* without a text
FilledSlide(title, notes, nBodies, blank) ==
  [NewSlide(5) EXCEPT
     !.title = IF title THEN <<[NewTextBlock EXCEPT !.rawText = <<"t">>]>> ELSE <<>>,
     !.notes = IF notes THEN <<<<"n">>>> ELSE <<>>,
     !.bodies = [i \in 1..nBodies |->
                   [text |-> IF i = blank THEN <<>>
                             ELSE <<[NewTextBlock EXCEPT !.rawText = <<Digits[i]>>]>>]]]

\* the reloaded presentation holding the page of the slide
PresentationOf(slide, types) ==
  [NoPresentation EXCEPT !.presentationId = 1,
     !.slides = <<[objectId |-> slide.objectId,
                   pageElements |-> [j \in 1..Len(types) |->
                                       [objectId |-> 10 * slide.objectId + j,
                                        type |-> types[j]]],
                   notesId |-> 10 * slide.objectId]>>]

InitFill ==
  /\ InitCalled
  /\ phase = "fill"
  /\ input \in {[slide |-> FilledSlide(title, notes, nBodies, blank),
                  presentation |-> PresentationOf(NewSlide(5), types)] :
                  title \in BOOLEAN, notes \in BOOLEAN, nBodies \in 0..MaxBodies,
                  blank \in 0..MaxBodies, types \in PlaceholderLists}

Call_appendContentRequests ==
  /\ phase = "fill"
  /\ output' = appendContentRequests(NewBuilder(input.slide, <<>>, 8), input.presentation)
  /\ phase' = "filled"
  /\ UNCHANGED <<auth, worker, dialect, context, tokenizerVars, error, generatorVars, input>>

SpecFill == InitFill /\ [][Call_appendContentRequests]_vars

\* pass 2 on pages with and without a speaker notes object
InitFillNotes ==
  /\ InitCalled
  /\ phase = "fill"
  /\ input \in {[slide |-> FilledSlide(title, notes, nBodies, blank),
                  presentation |-> [PresentationOf(NewSlide(5), types) EXCEPT
                                      !.slides[1].notesId = notesId]] :
                  title \in BOOLEAN, notes \in BOOLEAN, nBodies \in 0..MaxBodies,
                  blank \in 0..MaxBodies, types \in PlaceholderLists, notesId \in {0, 50}}

SpecFillNotes == InitFillNotes /\ [][Call_appendContentRequests]_vars

\* the TextDefinitions of table cells: plain, with a bold run, with a run
\* that sets no style, with a list marker
CellTexts ==
  {[NewTextBlock EXCEPT !.rawText = <<"a">>],
   [NewTextBlock EXCEPT !.rawText = <<"b">>,
                        !.textRuns = <<[attrs |-> {"bold"}, start |-> 0, end |-> 1]>>],
   [NewTextBlock EXCEPT !.rawText = <<"c">>,
                        !.textRuns = <<[attrs |-> {}, start |-> 0, end |-> 1]>>],
   [NewTextBlock EXCEPT !.rawText = <<"d">>,
                        !.listMarkers = <<[start |-> 0, end |-> 1, type |-> "ordered"]>>]}

\* tables of up to MaxRows rows of up to MaxColumns cells each
CellGrids ==
  LET Rows == UNION {[1..n -> CellTexts] : n \in 1..MaxColumns}
  IN UNION {[1..n -> Rows] : n \in 1..MaxRows}

TableOf(cells) ==
  [rows |-> Len(cells),
   columns |-> CHOOSE n \in {Len(cells[r]) : r \in 1..Len(cells)} :
                 \A r \in 1..Len(cells) : Len(cells[r]) <= n,
   cells |-> cells]

InitFillTable ==
  /\ InitCalled
  /\ phase = "fill"
  /\ input \in {[slide |-> [FilledSlide(title, FALSE, 0, 0) EXCEPT
                               !.tables = <<TableOf(cells)>>],
                  presentation |-> PresentationOf(NewSlide(5), <<"TITLE", "BODY">>)] :
                  title \in BOOLEAN, cells \in CellGrids}

SpecFillTable == InitFillTable /\ [][Call_appendContentRequests]_vars

\* the blocks documents are written with: headings and paragraphs of one
\* text each, the paragraph that is a {.column} marker and nothing else, the
\* horizontal rule
BlockKinds == {"h1", "h2", "h3", "p", "column", "hr"}

Documents == UNION {[1..n -> BlockKinds] : n \in 0..MaxBlocks}

\* the text of the i-th block of a document
BlockText(i) == <<Digits[i]>>

RECURSIVE Flatten(_)
Flatten(seqs) == IF seqs = <<>> THEN <<>> ELSE seqs[1] \o Flatten(Tail(seqs))

\* the text of a list item
ItemText == <<"i">>

\* the html_block token of a comment whose content is the paragraphs of the
\* given texts; tokens is parseMarkdown of the content
HtmlComment(texts) ==
  [type |-> "html_block", comment |-> TRUE,
   tokens |-> Flatten([n \in 1..Len(texts) |->
                         <<[type |-> "paragraph_open", column |-> FALSE],
                           [type |-> "text", content |-> texts[n]],
                           [type |-> "paragraph_close"]>>])]

\* the text of the second cell of the table that is the i-th block
SecondCellText(i) == <<Digits[i], "c">>

\* the tokens markdown-it makes of the i-th block
BlockTokens(kind, i) ==
  IF kind = "hr" THEN <<[type |-> "hr"]>>
  ELSE IF kind = "column"
       THEN <<[type |-> "paragraph_open", column |-> TRUE], [type |-> "paragraph_close"]>>
  ELSE IF kind = "p"
       THEN <<[type |-> "paragraph_open", column |-> FALSE],
              [type |-> "text", content |-> BlockText(i)],
              [type |-> "paragraph_close"]>>
  ELSE IF kind \in {"note", "blanknote"}
       THEN <<HtmlComment(IF kind = "note" THEN <<BlockText(i)>> ELSE <<>>)>>
  ELSE IF kind = "fence" THEN <<[type |-> "fence"]>>
  ELSE IF kind = "list"
       THEN <<[type |-> "list_open", tag |-> "ul"], [type |-> "list_item_open"],
              [type |-> "paragraph_open", column |-> FALSE],
              [type |-> "text", content |-> BlockText(i)],
              [type |-> "paragraph_close"],
              [type |-> "list_item_close"], [type |-> "list_close", tag |-> "ul"]>>
  ELSE IF kind = "listnote"
       THEN <<[type |-> "list_open", tag |-> "ul"], [type |-> "list_item_open"],
              [type |-> "paragraph_open", column |-> FALSE],
              [type |-> "text", content |-> ItemText],
              [type |-> "paragraph_close"],
              HtmlComment(<<BlockText(i)>>),
              [type |-> "list_item_close"], [type |-> "list_close", tag |-> "ul"]>>
  ELSE IF kind = "table"
       THEN <<[type |-> "table_open"], [type |-> "tr_open"],
              [type |-> "td_open"], [type |-> "text", content |-> BlockText(i)],
              [type |-> "td_close"],
              [type |-> "td_open"], [type |-> "text", content |-> SecondCellText(i)],
              [type |-> "td_close"],
              [type |-> "tr_close"], [type |-> "table_close"]>>
  ELSE <<[type |-> "heading_open", tag |-> kind],
         [type |-> "text", content |-> BlockText(i)],
         [type |-> "heading_close", tag |-> kind]>>

RECURSIVE parseMarkdown(_, _)
parseMarkdown(blocks, i) ==
  IF i > Len(blocks) THEN <<>>
  ELSE BlockTokens(blocks[i], i) \o parseMarkdown(blocks, i + 1)

\* inlineTokenRules['text'] on a token of the given content
textRule(ctx, content) == endStyle(appendText(startStyle(ctx, {}), content))

RECURSIVE processTokensFrom(_, _, _)

\* html_block starting the sub-context on an empty TextBlock whatever the
\* notes of the slide are
fullTokenRules_html_blockFresh(ctx, token) ==
  IF ctx.currentSlide = <<>> THEN Fail(ctx, "Assertion failed")
  ELSE IF ~token.comment THEN Fail(ctx, "Unsupported HTML block")
  ELSE LET sub == processTokensFrom(token.tokens,
                                     [startTextBlock(NewContext) EXCEPT !.ruleSet = "inline"], 0)
       IN IF sub.error # "" THEN [Fail(ctx, sub.error) EXCEPT !.ruleSet = sub.ruleSet]
          ELSE IF sub.text # <<>> /\ TrimNonEmpty(sub.text[1].rawText)
               THEN [ctx EXCEPT !.currentSlide[1].notes = <<sub.text[1].rawText>>,
                                !.ruleSet = "full"]
          ELSE [ctx EXCEPT !.ruleSet = "full"]

\* the Context the content of a comment is processed in: a new one, whose
\* TextBlock starts from the notes the slide already has; the module-level
\* ruleSet is inlineTokenRules when its first token is dispatched
subContextOf(ctx) ==
  LET notes == ctx.currentSlide[1].notes
      subContext ==
        IF notes # <<>>
        THEN [NewContext EXCEPT !.text = <<[NewTextBlock EXCEPT !.rawText = notes[1]]>>]
        ELSE startTextBlock(NewContext)
  IN [subContext EXCEPT !.ruleSet = "inline"]

\* the content of the comment is processed in a Context of its own, and
\* ruleSet is fullTokenRules when the rule returns; a throw of the content
\* leaves ruleSet as it was at the throw
fullTokenRules_html_block(ctx, token) ==
  IF ctx.currentSlide = <<>> THEN Fail(ctx, "Assertion failed")
  ELSE IF ~token.comment THEN Fail(ctx, "Unsupported HTML block")
  ELSE LET sub == processTokensFrom(token.tokens, subContextOf(ctx), 0)
       IN IF sub.error # "" THEN [Fail(ctx, sub.error) EXCEPT !.ruleSet = sub.ruleSet]
          ELSE IF sub.text # <<>> /\ TrimNonEmpty(sub.text[1].rawText)
               THEN [ctx EXCEPT !.currentSlide[1].notes = <<sub.text[1].rawText>>,
                                !.ruleSet = "full"]
          ELSE [ctx EXCEPT !.ruleSet = "full"]

\* the inline HTML elements that set a style, and the elements without one
SupportedElements == {"strong", "b", "em", "i", "code", "sub", "sup", "span"}

UnsupportedElements == {"u", "br"}

\* the StyleDefinition of a supported element, as the set of its keys
ElementStyle(nodeName) ==
  IF nodeName \in {"strong", "b"} THEN {"bold"}
  ELSE IF nodeName \in {"em", "i"} THEN {"italic"}
  ELSE IF nodeName = "code" THEN {"fontFamily"}
  ELSE IF nodeName \in {"sub", "sup"} THEN {"baselineOffset"}
  ELSE {}

\* 'Unsupported inline HTML element: ' + node.nodeName
UnsupportedMessage(nodeName) ==
  IF nodeName = "u" THEN "Unsupported inline HTML element: u"
  ELSE "Unsupported inline HTML element: br"

\* html_inline taking an element it does not know for a span
inlineTokenRules_html_inlineLenient(ctx, token) ==
  IF token.nodeName = "" THEN endStyle(ctx)
  ELSE IF token.nodeName = "#comment" THEN fullTokenRules_html_block(ctx, token)
  ELSE startStyle(ctx, ElementStyle(token.nodeName))

\* token.nodeName is the nodeName of the first node of the parsed
\* fragment, "" when the fragment has no node (a closing tag)
inlineTokenRules_html_inline(ctx, token) ==
  IF token.nodeName = "" THEN endStyle(ctx)
  ELSE IF token.nodeName = "#comment" THEN fullTokenRules_html_block(ctx, token)
  ELSE IF token.nodeName \in SupportedElements
       THEN startStyle(ctx, ElementStyle(token.nodeName))
  ELSE Fail(ctx, UnsupportedMessage(token.nodeName))

\* the token types that have a rule in fullTokenRules only
FullOnlyTypes ==
  {"html_block", "hr", "table_open", "table_close", "tr_open", "tr_close", "td_open",
   "td_close"}

\* the heading rules of inlineTokenRules: a bold style around the heading
inlineTokenRules_heading_open(ctx) == startStyle(ctx, {"bold"})

inlineTokenRules_heading_close(ctx) == endStyle(ctx)

\* processMarkdownToken: the rule ruleSet has for the token's type, applied;
\* a token whose type has no rule in ruleSet is ignored
processMarkdownToken(token, ctx) ==
  IF ctx.ruleSet = "inline" /\ token.type \in FullOnlyTypes THEN ctx
  ELSE IF ctx.ruleSet = "inline" /\ token.type = "heading_open"
       THEN inlineTokenRules_heading_open(ctx)
  ELSE IF ctx.ruleSet = "inline" /\ token.type = "heading_close"
       THEN inlineTokenRules_heading_close(ctx)
  ELSE IF token.type = "heading_open" THEN fullTokenRules_heading_open(ctx, FALSE)
  ELSE IF token.type = "heading_close" THEN fullTokenRules_heading_close(ctx, token.tag)
  ELSE IF token.type = "paragraph_open"
       THEN inlineTokenRules_paragraph_open(ctx, token.column, "")
  ELSE IF token.type = "paragraph_close" THEN inlineTokenRules_paragraph_close(ctx)
  ELSE IF token.type = "text" THEN textRule(ctx, token.content)
  ELSE IF token.type = "html_block" THEN fullTokenRules_html_block(ctx, token)
  ELSE IF token.type = "fence" THEN inlineTokenRules_fence(ctx)
  ELSE IF token.type = "html_inline" THEN inlineTokenRules_html_inline(ctx, token)
  ELSE IF token.type = "list_open" THEN inlineTokenRules_list_open(ctx, token.tag)
  ELSE IF token.type = "list_close" THEN inlineTokenRules_list_close(ctx, token.tag)
  ELSE IF token.type = "list_item_open" THEN inlineTokenRules_list_item_open(ctx)
  ELSE IF token.type = "list_item_close" THEN inlineTokenRules_list_item_close(ctx)
  ELSE IF token.type = "table_open" THEN fullTokenRules_table_open(ctx)
  ELSE IF token.type = "table_close" THEN fullTokenRules_table_close(ctx)
  ELSE IF token.type = "tr_open" THEN fullTokenRules_tr_open(ctx)
  ELSE IF token.type = "tr_close" THEN fullTokenRules_tr_close(ctx)
  ELSE IF token.type = "td_open" THEN fullTokenRules_td_open(ctx)
  ELSE IF token.type = "td_close" THEN fullTokenRules_td_close(ctx)
  ELSE fullTokenRules_hr(ctx)

\* tokens.forEach of processTokens, from the token at index (counted from
\* 0); a rule that throws ends the loop
processTokensFrom(tokens, ctx, index) ==
  IF index >= Len(tokens) THEN ctx
  ELSE LET next == processTokens(ctx, tokens[index + 1].type, index,
                                 processMarkdownToken(tokens[index + 1], ctx))
       IN IF next.error # "" THEN next
          ELSE processTokensFrom(tokens, next, index + 1)

extractSlides(blocks) == done(processTokensFrom(parseMarkdown(blocks, 1), NewContext, 0))

InitDocument ==
  /\ InitCalled
  /\ phase = "document"
  /\ input \in Documents

Call_extractSlides ==
  /\ phase = "document"
  /\ output' = extractSlides(input)
  /\ phase' = "extracted"
  /\ UNCHANGED <<auth, worker, dialect, context, tokenizerVars, error, generatorVars, input>>

SpecDocument == InitDocument /\ [][Call_extractSlides]_vars

\* documents of headings, paragraphs, one-row tables and rules
TableDocuments == UNION {[1..n -> {"h1", "p", "table", "hr"}] : n \in 0..MaxBlocks}

InitTableDocument ==
  /\ InitCalled
  /\ phase = "document"
  /\ input \in TableDocuments

SpecTableDocument == InitTableDocument /\ [][Call_extractSlides]_vars

\* the html_inline token of an opening tag, of a comment, of a closing tag
HtmlInline(nodeName, i) ==
  [type |-> "html_inline", nodeName |-> nodeName, comment |-> TRUE,
   tokens |-> IF nodeName = "#comment" THEN HtmlComment(<<BlockText(i)>>).tokens ELSE <<>>]

\* the tokens between the i-th opening tag of the paragraph and its closing
\* tag: the tag, a text, what is nested in it, the closing tag; a comment
\* has no closing tag
RECURSIVE NestedTokens(_, _)
NestedTokens(elements, i) ==
  IF i > Len(elements) THEN <<>>
  ELSE IF elements[i] = "#comment"
       THEN <<HtmlInline("#comment", i)>> \o NestedTokens(elements, i + 1)
  ELSE <<HtmlInline(elements[i], i), [type |-> "text", content |-> BlockText(i)]>>
         \o NestedTokens(elements, i + 1) \o <<HtmlInline("", i)>>

\* the tokens of one paragraph "a <e1>1 <e2>2 ... </e2></e1>"
InlineTokens(elements) ==
  <<[type |-> "paragraph_open", column |-> FALSE], [type |-> "text", content |-> TextContent]>>
    \o NestedTokens(elements, 1) \o <<[type |-> "paragraph_close"]>>

InitInline ==
  /\ InitCalled
  /\ phase = "inline"
  /\ input \in UNION {[1..n -> SupportedElements \cup UnsupportedElements \cup {"#comment"}] :
                        n \in 0..MaxNesting}

Call_extractInline ==
  /\ phase = "inline"
  /\ output' = done(processTokensFrom(InlineTokens(input), NewContext, 0))
  /\ phase' = "extracted"
  /\ UNCHANGED <<auth, worker, dialect, context, tokenizerVars, error, generatorVars, input>>

SpecInline == InitInline /\ [][Call_extractInline]_vars

\* the tokens of the i-th block of the content of a comment: a paragraph,
\* a heading, a rule, or a paragraph "i <!-- i --> a" with an inline comment
FragmentKinds == {"p", "h1", "hr", "comment"}

FragmentBlock(kind, i) ==
  IF kind = "comment"
  THEN <<[type |-> "paragraph_open", column |-> FALSE],
         [type |-> "text", content |-> BlockText(i)],
         HtmlInline("#comment", i),
         [type |-> "text", content |-> TextContent],
         [type |-> "paragraph_close"]>>
  ELSE BlockTokens(kind, i)

FragmentTokens(kinds) == Flatten([i \in 1..Len(kinds) |-> FragmentBlock(kinds[i], i)])

\* the tokens of a document of a paragraph, a comment of the given content,
\* a heading, a rule and a paragraph
NotesDocument(kinds) ==
  BlockTokens("p", 1)
    \o <<[type |-> "html_block", comment |-> TRUE, tokens |-> FragmentTokens(kinds)]>>
    \o BlockTokens("h1", 2) \o BlockTokens("hr", 3) \o BlockTokens("p", 4)

InitRuleSet ==
  /\ InitCalled
  /\ phase = "notes"
  /\ input \in UNION {[1..n -> FragmentKinds] : n \in 0..MaxBlocks}

Call_extractNotes ==
  /\ phase = "notes"
  /\ output' = done(processTokensFrom(NotesDocument(input), NewContext, 0))
  /\ phase' = "extracted"
  /\ UNCHANGED <<auth, worker, dialect, context, tokenizerVars, error, generatorVars, input>>

SpecRuleSet == InitRuleSet /\ [][Call_extractNotes]_vars

\* the two passes of generateFromMarkdown on a document of headings,
\* paragraphs and rules, for a deck of one layout and a service that
\* creates the pages asked for
OrderDocuments == UNION {[1..n -> {"h1", "p", "hr"}] : n \in 0..MaxBlocks}

OrderDeck == [NoPresentation EXCEPT !.presentationId = 1, !.layouts = <<TitleAndBody>>]

InitOrder ==
  /\ InitCalled
  /\ phase = "markdown"
  /\ input \in OrderDocuments

\* this.slides = extractSlides(markdown); this.createSlides()
Call_passOne ==
  /\ phase = "markdown"
  /\ LET extracted == extractSlides(input)
     IN IF extracted.error # ""
        THEN /\ output' = [create |-> [NewPass(<<>>, NewContext.uuidNext) EXCEPT
                                          !.error = extracted.error],
                           populate |-> <<>>]
             /\ phase' = "failed"
        ELSE /\ output' = [create |-> createSlides(extracted.slides, OrderDeck,
                                                   extracted.uuidNext),
                           populate |-> <<>>]
             /\ phase' = "created"
  /\ UNCHANGED <<auth, worker, dialect, context, tokenizerVars, error, generatorVars, input>>

\* the presentation reloaded with the created pages; this.populateSlides()
Call_passTwo ==
  /\ phase = "created"
  /\ output.create.error = ""
  /\ LET created == output.create
         reloaded == [OrderDeck EXCEPT !.slides =
                        [i \in 1..Len(created.requests) |->
                           PageFor(created.requests[i], OrderDeck.layouts)]]
     IN output' = [output EXCEPT
                     !.populate = <<populateSlides(created.slides, reloaded, created.uuidNext)>>]
  /\ phase' = "populated"
  /\ UNCHANGED <<auth, worker, dialect, context, tokenizerVars, error, generatorVars, input>>

SpecOrder == InitOrder /\ [][Call_passOne \/ Call_passTwo]_vars

\* the two passes on documents with tables
InitIds ==
  /\ InitCalled
  /\ phase = "markdown"
  /\ input \in TableDocuments

SpecIds == InitIds /\ [][Call_passOne \/ Call_passTwo]_vars

\* documents with lists; populateSlides is run a second time on the same
\* slides and the same presentation
ListDocuments == UNION {[1..n -> {"h1", "p", "list", "hr"}] : n \in 0..MaxBlocks}

InitRebuild ==
  /\ InitCalled
  /\ phase = "markdown"
  /\ input \in ListDocuments

Call_passTwoAgain ==
  /\ phase = "populated"
  /\ output.populate[1].error = ""
  /\ LET created == output.create
         built == output.populate[1]
         reloaded == [OrderDeck EXCEPT !.slides =
                        [i \in 1..Len(created.requests) |->
                           PageFor(created.requests[i], OrderDeck.layouts)]]
     IN output' = [output EXCEPT
                     !.populate = Append(@, populateSlides(built.slides, reloaded,
                                                            built.uuidNext))]
  /\ phase' = "repopulated"
  /\ UNCHANGED <<auth, worker, dialect, context, tokenizerVars, error, generatorVars, input>>

SpecRebuild == InitRebuild /\ [][Call_passOne \/ Call_passTwo \/ Call_passTwoAgain]_vars

(***************************************************************************)
(* generateSlides (services/slidesService.ts).  calls is the log of the    *)
(* calls made, each with its arguments and how it was answered; phase is   *)
(* the await the function is at.                                           *)
(***************************************************************************)
\* String.prototype.trim
RECURSIVE Trim(_)
Trim(text) ==
  IF text = <<>> THEN text
  ELSE IF text[1] \in WhiteSpace THEN Trim(Tail(text))
  ELSE IF Last(text) \in WhiteSpace THEN Trim(Front(text))
  ELSE text

\* title?.trim() || 'Lesson Plan'; an undefined title is the empty sequence
presentationTitle(title) ==
  IF Trim(title) # <<>> THEN Trim(title) ELSE <<"Lesson Plan">>

Titles == {<<>>, <<" ">>, <<"T">>, <<" ", "T", " ">>}

\* the template id of a call: "" is a call without one
TemplateIds == {"", "template-123"}

Markdowns == {"", "# Test Slide"}

AccessTokens == {"token-1", "token-2"}

\* value is what the call resolved to ("" for a rejection)
Called(call, args, status, value) ==
  [call |-> call, args |-> args, status |-> status, value |-> value]

InitService ==
  /\ InitCalled
  /\ phase = "getAccessToken"
  /\ input \in [markdown : Markdowns, templateId : TemplateIds, title : Titles]

\* the outer catch: console.error, then the error is thrown again
Rethrow(message) ==
  /\ phase' = "thrown"
  /\ error' = message

\* const token = await getAccessToken()
Service_getAccessToken ==
  /\ phase = "getAccessToken"
  /\ \/ \E token \in AccessTokens :
          /\ calls' = Append(calls, Called("getAccessToken", <<>>, "resolved", token))
          /\ output' = <<token>>
          /\ phase' = IF input.templateId # "" THEN "copyPresentation" ELSE "newPresentation"
          /\ error' = error
     \/ /\ calls' = Append(calls, Called("getAccessToken", <<>>, "rejected", ""))
        /\ Rethrow("Authentication failed")
        /\ UNCHANGED output
  /\ UNCHANGED <<auth, worker, dialect, context, tokenizerVars, slides, presentation, uuidNext, net, server,
                 input>>

\* a failed copy running into the outer catch
Service_copyPresentationNoFallback ==
  /\ phase = "copyPresentation"
  /\ LET args == <<output[1], presentationTitle(input.title), input.templateId>>
     IN \/ /\ calls' = Append(calls, Called("copyPresentation", args, "resolved", "copy"))
           /\ presentation' = [NoPresentation EXCEPT !.presentationId = 2]
           /\ phase' = "generateFromMarkdown"
           /\ error' = error
        \/ /\ calls' = Append(calls, Called("copyPresentation", args, "rejected", ""))
           /\ Rethrow("Drive permissions required")
           /\ UNCHANGED presentation
  /\ UNCHANGED <<auth, worker, dialect, context, tokenizerVars, slides, uuidNext, net, server, calledVars>>

\* generator = await SlideGenerator.copyPresentation(token, title, templateId);
\* a rejection is caught: console.warn, then newPresentation is tried
Service_copyPresentation ==
  /\ phase = "copyPresentation"
  /\ LET args == <<output[1], presentationTitle(input.title), input.templateId>>
     IN \/ /\ calls' = Append(calls, Called("copyPresentation", args, "resolved", "copy"))
           /\ presentation' = [NoPresentation EXCEPT !.presentationId = 2]
           /\ phase' = "generateFromMarkdown"
        \/ /\ calls' = Append(calls, Called("copyPresentation", args, "rejected", ""))
           /\ phase' = "newPresentation"
           /\ UNCHANGED presentation
  /\ UNCHANGED <<auth, worker, dialect, context, tokenizerVars, error, slides, uuidNext, net, server,
                 calledVars>>

\* generator = await SlideGenerator.newPresentation(token, title), in the
\* catch of the copy or in the else branch
Service_newPresentation ==
  /\ phase = "newPresentation"
  /\ LET args == <<output[1], presentationTitle(input.title)>>
     IN \/ /\ calls' = Append(calls, Called("newPresentation", args, "resolved", "new"))
           /\ presentation' = [NoPresentation EXCEPT !.presentationId = 3]
           /\ phase' = "generateFromMarkdown"
           /\ error' = error
        \/ /\ calls' = Append(calls, Called("newPresentation", args, "rejected", ""))
           /\ Rethrow("Failed to create presentation")
           /\ UNCHANGED presentation
  /\ UNCHANGED <<auth, worker, dialect, context, tokenizerVars, slides, uuidNext, net, server, calledVars>>

\* return await generator.generateFromMarkdown(markdown)
Service_generateFromMarkdown ==
  /\ phase = "generateFromMarkdown"
  /\ LET args == <<presentation.presentationId, input.markdown>>
     IN \/ /\ calls' = Append(calls, Called("generateFromMarkdown", args, "resolved", "id"))
           /\ output' = <<presentation.presentationId>>
           /\ phase' = "returned"
           /\ error' = error
        \/ /\ calls' = Append(calls, Called("generateFromMarkdown", args, "rejected", ""))
           /\ Rethrow("Failed to generate from markdown")
           /\ UNCHANGED output
  /\ UNCHANGED <<auth, worker, dialect, context, tokenizerVars, slides, presentation, uuidNext, net, server,
                 input>>

NextService ==
  \/ Service_getAccessToken
  \/ Service_copyPresentation
  \/ Service_newPresentation
  \/ Service_generateFromMarkdown

SpecService == InitService /\ [][NextService]_vars

(***************************************************************************)
(* googleAuth: the calls of the application, Google's script and the clock *)
(***************************************************************************)
\* what localStorage holds when the page loads
SavedItems ==
  {<<>>, <<StoredToken("saved-token", 0, FALSE)>>}
    \cup {<<StoredToken("saved-token", expiresAt, TRUE)>> :
            expiresAt \in {0, BufferMs, 2 * BufferMs, 3 * BufferMs}}

\* the TokenResponses Google answers a request with
TokenResponses ==
  [error : {"", "access_denied"}, access_token : {"", "token-1", "token-2"},
   expires_in : ExpiresIn]

InitAuth ==
  /\ \E saved \in SavedItems, gsi \in BOOLEAN :
       auth = [NoAuth EXCEPT !.stored = saved, !.gsi = gsi]
  /\ worker = WorkerLoaded
  /\ dialect = FullDialect
  /\ phase = "auth"
  /\ context = NewContext
  /\ open = <<>>
  /\ ntok = 0
  /\ nhr = 0
  /\ error = ""
  /\ slides = <<>>
  /\ presentation = NoPresentation
  /\ uuidNext = NewContext.uuidNext
  /\ net = <<>>
  /\ server = <<>>
  /\ calls = <<>>
  /\ input = <<>>
  /\ output = <<>>

AuthUnchanged ==
  UNCHANGED <<worker, dialect, phase, context, tokenizerVars, error, generatorVars, calledVars>>

Auth_initGoogleAuth ==
  /\ phase = "auth"
  /\ auth' = [initGoogleAuth(auth) EXCEPT !.op = "initGoogleAuth"]
  /\ AuthUnchanged

\* the script of Google Identity Services finishes loading
Auth_gsiLoaded ==
  /\ phase = "auth"
  /\ ~auth.gsi
  /\ auth' = [auth EXCEPT !.gsi = TRUE]
  /\ AuthUnchanged

\* the checkGsiLoaded timer finds window.google: the token client is made,
\* initGoogleAuth resolves and a waiting getAccessToken goes on
Auth_checkGsiLoaded ==
  /\ phase = "auth"
  /\ auth.polling /\ auth.gsi
  /\ LET made == [auth EXCEPT !.tokenClient = TRUE, !.polling = FALSE, !.waiting = FALSE]
     IN auth' = IF auth.waiting THEN getAccessTokenAfterInit(made) ELSE made
  /\ AuthUnchanged

Auth_getAccessToken ==
  /\ phase = "auth"
  /\ ~auth.pending /\ ~auth.waiting
  /\ LET initialized == [initGoogleAuth(auth) EXCEPT !.op = "getAccessToken"]
     IN auth' = IF initialized.tokenClient THEN getAccessTokenAfterInit(initialized)
                ELSE [initialized EXCEPT !.waiting = TRUE, !.returned = <<>>]
  /\ AuthUnchanged

\* the callback getAccessToken installed is called with Google's response
Auth_tokenResponse ==
  /\ phase = "auth"
  /\ auth.pending
  /\ \E response \in TokenResponses :
       auth' =
         IF response.error # "" \/ response.access_token = ""
         THEN [auth EXCEPT !.pending = FALSE]
         ELSE LET expiresAt == auth.now + response.expires_in * 1000
              IN [auth EXCEPT
                    !.pending = FALSE,
                    !.stored = <<StoredToken(response.access_token, expiresAt, TRUE)>>,
                    !.cachedToken = response.access_token,
                    !.cachedExpiresAt = expiresAt,
                    !.returned = <<[token |-> response.access_token, cached |-> FALSE,
                                    at |-> auth.now, expiresAt |-> expiresAt]>>]
  /\ AuthUnchanged

Auth_signOut ==
  /\ phase = "auth"
  /\ auth' = [signOut(auth) EXCEPT !.op = "signOut"]
  /\ AuthUnchanged

\* time passes
Auth_tick ==
  /\ phase = "auth"
  /\ auth.now < MaxTicks * TickMs
  /\ auth' = [auth EXCEPT !.now = @ + TickMs, !.op = "tick"]
  /\ AuthUnchanged

NextAuth ==
  \/ Auth_initGoogleAuth
  \/ Auth_gsiLoaded
  \/ Auth_checkGsiLoaded
  \/ Auth_getAccessToken
  \/ Auth_tokenResponse
  \/ Auth_signOut
  \/ Auth_tick

SpecAuth == InitAuth /\ [][NextAuth]_vars

(***************************************************************************)
(* worker/pdfWorker.ts.  worker.pyodideInstance is 0 for null and 1 for an *)
(* instance.  worker.inits holds, for every call of initializePyodide, the *)
(* promise it is waiting for ("loadPyodide": the import of the module and  *)
(* loadPyodide, before the instance is assigned; "fetch": loadPackage and  *)
(* the fetch of the wheel; "install": runPythonAsync) or the message it    *)
(* posted at its end ("ready", "error").  worker.handlers holds, for every *)
(* 'convert' message with a file, the promise its listener is waiting for  *)
(* ("initializePyodide", "arrayBuffer", "runPythonAsync", or "returned"),   *)
(* the call of initializePyodide it awaits, and the conversion-result      *)
(* messages it posted.                                                     *)
(***************************************************************************)

\* the messages the main thread sends: a reload command, a conversion with
\* and without a file
WorkerMessages ==
  {[command |-> "reload-pyodide", type |-> "", file |-> FALSE],
   [command |-> "", type |-> "convert", file |-> TRUE],
   [command |-> "", type |-> "convert", file |-> FALSE]}

\* a call of initializePyodide, up to its first await
initializePyodide(w) == [w EXCEPT !.inits = Append(@, "loadPyodide")]

\* the catch block of initializePyodide: 'pyodide-error' is posted and the
\* instance is reset
initializeFailed(w, i) == [w EXCEPT !.inits[i] = "error", !.pyodideInstance = 0]

\* the promise the i-th call of initializePyodide waits for settles, and
\* the call runs to its next await or to its end; the call on
\* pyodideInstance after the fetch throws when the instance was reset
initializeSettled(w, i, ok) ==
  IF ~ok THEN initializeFailed(w, i)
  ELSE IF w.inits[i] = "loadPyodide"
       THEN [w EXCEPT !.inits[i] = "fetch", !.pyodideInstance = 1]
  ELSE IF w.inits[i] = "fetch"
       THEN IF w.pyodideInstance = 0 THEN initializeFailed(w, i)
            ELSE [w EXCEPT !.inits[i] = "install"]
  ELSE [w EXCEPT !.inits[i] = "ready"]

\* the listener posts the 'conversion-result' of a handler and returns
postResult(w, h, success) ==
  [w EXCEPT !.handlers[h].pc = "returned",
            !.handlers[h].results = Append(@, IF success THEN "success" ELSE "failure")]

\* the catch block of a listener that posts nothing
conversionFailedSilently(w, h) == [w EXCEPT !.handlers[h].pc = "returned"]

\* the catch block of the listener
conversionFailed(w, h) == postResult(w, h, FALSE)

\* the conversion branch of the listener, up to its first await
startConversion(w) ==
  IF w.pyodideInstance = 0
  THEN LET called == initializePyodide(w)
       IN [called EXCEPT !.handlers =
             Append(@, [pc |-> "initializePyodide", init |-> Len(called.inits),
                        results |-> <<>>])]
  ELSE [w EXCEPT !.handlers = Append(@, [pc |-> "arrayBuffer", init |-> 0, results |-> <<>>])]

\* convertPdfToMarkdown up to its await: it throws without an instance and
\* when writeFile throws
convertPdfToMarkdown(w, h, written) ==
  IF w.pyodideInstance = 0 \/ ~written THEN conversionFailed(w, h)
  ELSE [w EXCEPT !.handlers[h].pc = "runPythonAsync"]

\* the 'message' listener up to its first await
Worker_message ==
  /\ phase = "worker"
  /\ worker.received < MaxMessages
  /\ \E data \in WorkerMessages :
       LET reloaded == IF data.command = "reload-pyodide"
                       THEN initializePyodide([worker EXCEPT !.pyodideInstance = 0])
                       ELSE worker
           converting == IF data.type = "convert" /\ data.file
                         THEN startConversion(reloaded)
                         ELSE reloaded
       IN worker' = [converting EXCEPT !.received = @ + 1]
  /\ UNCHANGED <<auth, dialect, phase, context, tokenizerVars, error, generatorVars, calledVars>>

\* a promise awaited by a call of initializePyodide resolves or rejects
Worker_initializeSettles ==
  /\ phase = "worker"
  /\ \E i \in 1..Len(worker.inits), ok \in BOOLEAN :
       /\ worker.inits[i] \in {"loadPyodide", "fetch", "install"}
       /\ worker' = initializeSettled(worker, i, ok)
  /\ UNCHANGED <<auth, dialect, phase, context, tokenizerVars, error, generatorVars, calledVars>>

\* the initializePyodide() a listener awaits has returned: the listener
\* goes on to data.file.arrayBuffer()
Worker_initialized ==
  /\ phase = "worker"
  /\ \E h \in 1..Len(worker.handlers) :
       /\ worker.handlers[h].pc = "initializePyodide"
       /\ worker.inits[worker.handlers[h].init] \in {"ready", "error"}
       /\ worker' = [worker EXCEPT !.handlers[h].pc = "arrayBuffer"]
  /\ UNCHANGED <<auth, dialect, phase, context, tokenizerVars, error, generatorVars, calledVars>>

\* data.file.arrayBuffer() resolves, and convertPdfToMarkdown is called, or
\* rejects
Worker_arrayBuffer ==
  /\ phase = "worker"
  /\ \E h \in 1..Len(worker.handlers), ok \in BOOLEAN, written \in BOOLEAN :
       /\ worker.handlers[h].pc = "arrayBuffer"
       /\ worker' = IF ok THEN convertPdfToMarkdown(worker, h, written)
                    ELSE conversionFailed(worker, h)
  /\ UNCHANGED <<auth, dialect, phase, context, tokenizerVars, error, generatorVars, calledVars>>

\* the runPythonAsync of convertPdfToMarkdown resolves with the markdown or
\* rejects
Worker_converted ==
  /\ phase = "worker"
  /\ \E h \in 1..Len(worker.handlers), ok \in BOOLEAN :
       /\ worker.handlers[h].pc = "runPythonAsync"
       /\ worker' = IF ok THEN postResult(worker, h, TRUE) ELSE conversionFailed(worker, h)
  /\ UNCHANGED <<auth, dialect, phase, context, tokenizerVars, error, generatorVars, calledVars>>

InitWorker ==
  /\ InitCalled
  /\ phase = "worker"
  /\ input = <<>>

NextWorker ==
  \/ Worker_message
  \/ Worker_initializeSettles
  \/ Worker_initialized
  \/ Worker_arrayBuffer
  \/ Worker_converted

SpecWorker == InitWorker /\ [][NextWorker]_vars

\* every promise the worker awaits settles, and the event loop runs the
\* continuation of every settled promise
SpecWorkerFair ==
  /\ SpecWorker
  /\ WF_vars(Worker_initializeSettles)
  /\ WF_vars(Worker_initialized)
  /\ WF_vars(Worker_arrayBuffer)
  /\ WF_vars(Worker_converted)

\* documents of headings, paragraphs, one-item lists, fenced code and rules
StartDocuments ==
  UNION {[1..n -> {"h1", "p", "list", "fence", "hr"}] : n \in 0..MaxBlocks}

InitStartDocument ==
  /\ InitCalled
  /\ phase = "document"
  /\ input \in StartDocuments

SpecStartDocument == InitStartDocument /\ [][Call_extractSlides]_vars

\* documents of paragraphs, comments (with a text, blank, inside a list
\* item) and rules
NoteDocuments ==
  UNION {[1..n -> {"p", "note", "blanknote", "listnote", "hr"}] : n \in 0..MaxBlocks}

InitNoteDocument ==
  /\ InitCalled
  /\ phase = "document"
  /\ input \in NoteDocuments

SpecNoteDocument == InitNoteDocument /\ [][Call_extractSlides]_vars

NextSlides ==
  \/ Tok_heading_open
  \/ Tok_heading_close
  \/ Tok_paragraph_open
  \/ Tok_paragraph_close
  \/ Tok_text
  \/ Tok_hr
  \/ Done

SpecSlides == InitExtract /\ [][NextSlides]_vars

NextTable ==
  \/ Tok_paragraph_open
  \/ Tok_paragraph_close
  \/ Tok_text
  \/ Tok_code_inline
  \/ Tok_em_open
  \/ Tok_em_close
  \/ Tok_table_open
  \/ Tok_table_close
  \/ Tok_tr_open
  \/ Tok_tr_close
  \/ Tok_td_open
  \/ Tok_th_open
  \/ Tok_td_close
  \/ Done

SpecTable == InitExtract /\ [][NextTable]_vars

NextList ==
  \/ Tok_heading_open
  \/ Tok_heading_close
  \/ Tok_paragraph_open
  \/ Tok_paragraph_close
  \/ Tok_text
  \/ Tok_fence
  \/ Tok_list_open
  \/ Tok_list_close
  \/ Tok_list_item_open
  \/ Tok_list_item_close
  \/ Done

SpecList == InitExtract /\ [][NextList]_vars

\* documents of lists, with the rules that may stand inside a list item
NextNested ==
  \/ Tok_paragraph_open
  \/ Tok_paragraph_close
  \/ Tok_text
  \/ Tok_hr
  \/ Tok_list_open
  \/ Tok_list_close
  \/ Tok_list_item_open
  \/ Tok_list_item_close
  \/ Done

SpecNested == InitExtract /\ [][NextNested]_vars

\* documents of paragraphs and lists whose items hold paragraphs and lists
ListDialect == [FullDialect EXCEPT !.paragraphs = {[column |-> FALSE, layout |-> ""]}]

InitListTokens ==
  /\ auth = NoAuth
  /\ worker = WorkerLoaded
  /\ dialect = ListDialect
  /\ phase = "extract"
  /\ context = NewContext
  /\ open = <<>>
  /\ ntok = 0
  /\ nhr = 0
  /\ error = ""
  /\ slides = <<>>
  /\ presentation = NoPresentation
  /\ uuidNext = NewContext.uuidNext
  /\ net = <<>>
  /\ server = <<>>
  /\ calls = <<>>
  /\ input = <<>>
  /\ output = <<>>

NextListTokens ==
  \/ Tok_paragraph_open
  \/ Tok_paragraph_close
  \/ Tok_text
  \/ Tok_list_open
  \/ Tok_list_close
  \/ Tok_list_item_open
  \/ Tok_list_item_close
  \/ Done

SpecListTokens == InitListTokens /\ [][NextListTokens]_vars

NextGen ==
  \/ Begin
  \/ Tok_heading_open
  \/ Tok_heading_close
  \/ Tok_paragraph_open
  \/ Tok_paragraph_close
  \/ Tok_text
  \/ Tok_em_open
  \/ Tok_em_close
  \/ Tok_fence
  \/ Tok_list_open
  \/ Tok_list_close
  \/ Tok_list_item_open
  \/ Tok_list_item_close
  \/ Done
  \/ CreateSlides
  \/ CreateResponse
  \/ ReloadResponse
  \/ PopulateSlides
  \/ PopulateResponse

SpecGen == InitGen /\ [][NextGen]_vars

NextGenTable ==
  \/ Begin
  \/ Tok_text
  \/ Tok_table_open
  \/ Tok_table_close
  \/ Tok_tr_open
  \/ Tok_tr_close
  \/ Tok_td_open
  \/ Tok_td_close
  \/ Done
  \/ CreateSlides
  \/ CreateResponse
  \/ ReloadResponse
  \/ PopulateSlides
  \/ PopulateResponse

SpecGenTable == InitGenTable /\ [][NextGenTable]_vars

Next ==
  \/ NextSlides
  \/ NextTable
  \/ NextList
  \/ Tok_strong_open
  \/ Tok_strong_close

Spec == InitExtract /\ [][Next]_vars

(***************************************************************************)
(* Properties of extraction                                                *)
(***************************************************************************)
ToSet(seq) == {seq[i] : i \in 1..Len(seq)}

\* the TextBlocks a slide owns: title, subtitle, bodies and table cells
SlideBlocks(slide) ==
  ToSet(slide.title) \cup ToSet(slide.subtitle)
    \cup UNION {ToSet(slide.bodies[i].text) : i \in 1..Len(slide.bodies)}
    \cup UNION {UNION {ToSet(slide.tables[t].cells[r]) : r \in 1..Len(slide.tables[t].cells)}
                  : t \in 1..Len(slide.tables)}

\* the slides finalised so far and the slide being built
KnownSlides == ToSet(context.slides) \cup ToSet(context.currentSlide)

InRange(range, block) ==
  0 <= range.start /\ range.start <= range.end /\ range.end <= Len(block.rawText)

\* C1: when extractSlides returns, it returns exactly N+1 slides, N being
\* the number of hr tokens other than one at index 0; the empty stream
\* yields one slide.
C1_SlideCount == phase = "extracted" => Len(context.slides) = nhr + 1

C1_Witness == phase = "extracted" /\ nhr = 2 /\ Len(context.slides) = 3

\* C2: every StyleRun of every TextBlock owned by a slide (title, subtitle,
\* body, table cell) satisfies 0 <= start <= end <= Len(rawText).
C2_StyleRunBounds ==
  \A slide \in KnownSlides : \A block \in SlideBlocks(slide) :
    \A i \in 1..Len(block.textRuns) : InRange(block.textRuns[i], block)

\* an extracted slide with a table whose cell carries a style run
C2_Witness ==
  /\ phase = "extracted"
  /\ \E slide \in ToSet(context.slides) :
       /\ slide.tables # <<>>
       /\ \E r \in 1..Len(slide.tables[1].cells) : \E c \in 1..Len(slide.tables[1].cells[r]) :
            slide.tables[1].cells[r][c].textRuns # <<>>

\* C3: every ListMarker of every TextBlock owned by a slide satisfies
\* 0 <= start <= end <= Len(rawText).
C3_ListMarkerBounds ==
  \A slide \in KnownSlides : \A block \in SlideBlocks(slide) :
    \A i \in 1..Len(block.listMarkers) : InRange(block.listMarkers[i], block)

MaxRowLength(cells) ==
  IF cells = <<>> THEN 0
  ELSE CHOOSE n \in {Len(cells[r]) : r \in 1..Len(cells)} :
         \A r \in 1..Len(cells) : Len(cells[r]) <= n

\* C8: every TableModel attached to a slide has rows = cells.length and
\* columns = the maximum row length, ragged rows included.
C8_TableShape ==
  \A slide \in KnownSlides : \A t \in 1..Len(slide.tables) :
    /\ slide.tables[t].rows = Len(slide.tables[t].cells)
    /\ slide.tables[t].columns = MaxRowLength(slide.tables[t].cells)

\* a table with ragged rows: a longer row followed by a shorter one
C8_Witness ==
  /\ phase = "extracted"
  /\ \E slide \in ToSet(context.slides) : \E t \in 1..Len(slide.tables) :
       /\ Len(slide.tables[t].cells) = 2
       /\ Len(slide.tables[t].cells[1]) > Len(slide.tables[t].cells[2])

\* the keys of an object that hold a value other than undefined, in
\* enumeration order
DefinedKeys(object) ==
  LET defined == SelectSeq(object, LAMBDA pair : pair[2] # "undefined")
  IN [i \in 1..Len(defined) |-> defined[i][1]]

\* C9: the field mask lists exactly the keys whose value is not undefined,
\* in enumeration order, separated by commas; keys holding null, false, 0 or
\* the empty string are listed, and an object without a defined key yields
\* the empty mask.
C9_FieldMask ==
  phase = "masked" =>
    LET keys == DefinedKeys(input)
    IN /\ Len(output) = IF keys = <<>> THEN 0 ELSE 2 * Len(keys) - 1
       /\ \A i \in 1..Len(keys) : output[2 * i - 1] = keys[i]
       /\ \A i \in 1..Len(keys) - 1 : output[2 * i] = ","

\* an object with an undefined key between keys holding false and null
C9_Witness ==
  /\ phase = "masked"
  /\ input = <<<<"italic", "false">>, <<"bold", "undefined">>, <<"link", "null">>>>
  /\ output = <<"italic", ",", "link">>

\* the positions of the deck layouts displayed under the slide's customLayout
Designated(deck, slide) ==
  {i \in 1..Len(deck.layouts) :
     slide.customLayout # "" /\ deck.layouts[i].displayName = slide.customLayout}

DeckHas(deck, name) == \E i \in 1..Len(deck.layouts) : deck.layouts[i].name = name

\* C10: matchLayout returns the layout the slide's customLayout designates
\* when the deck has it; otherwise the classified name when the deck has it;
\* otherwise the first layout of the deck; and the classified name when the
\* deck has no layouts.
C10_MatchOrder ==
  phase = "matched" =>
    LET deck == input.presentation
        slide == input.slide
    IN IF Designated(deck, slide) # {}
       THEN \E i \in Designated(deck, slide) : output = deck.layouts[i].name
       ELSE IF DeckHas(deck, classify(slide)) THEN output = classify(slide)
       ELSE IF deck.layouts # <<>> THEN output = deck.layouts[1].name
       ELSE output = classify(slide)

\* a slide whose classified name the deck lacks gets the first layout
C10_Witness ==
  /\ phase = "matched"
  /\ input.presentation.layouts # <<>>
  /\ Designated(input.presentation, input.slide) = {}
  /\ ~DeckHas(input.presentation, classify(input.slide))
  /\ output = input.presentation.layouts[1].name

\* the remote calls made so far, by kind
Kinds(log) == [i \in 1..Len(log) |-> log[i].call]

IsPrefix(s, t) == Len(s) <= Len(t) /\ \A i \in 1..Len(s) : s[i] = t[i]

\* C4: the remote calls of generateFromMarkdown are made in the order create
\* batch, reload, populate batch, each at most once; a call is made only
\* after the call before it succeeded, so a failed call is the last one and
\* is not repeated; and the populate batch is sent only when the reload
\* returned at least one slide.
C4_RemoteOrder ==
  /\ IsPrefix(Kinds(net), <<"create", "reload", "populate">>)
  /\ \A i \in 1..Len(net) :
       /\ i < Len(net) => net[i].status = "ok"
       /\ net[i].call = "populate" => presentation.slides # <<>>

\* a run that made the three calls, all accepted
C4_Witness ==
  /\ phase = "done"
  /\ Len(net) = 3
  /\ \A i \in 1..3 : net[i].status = "ok"

\* the errors raised by compiling: parse, structural, layout resolution and
\* precondition errors
CompileErrors ==
  {"Assertion failed", "Nested lists must match parent style", "Unable to find layout",
   "Multiple tables per slide are not supported.", "Can't find page"}

\* C5: when compiling the document has raised a fatal error, no batch of
\* the document has been sent to the remote service.
C5_NoBatchOnError ==
  error \in CompileErrors =>
    \A i \in 1..Len(net) : net[i].call \notin {"create", "populate"}

\* the requests of the populate batch, once it is built and sent
PopulateBatch == IF net # <<>> /\ Last(net).call = "populate" THEN Last(net).requests ELSE <<>>

\* the requests one call of appendInsertTextRequests contributed
Segment(call) == SubSeq(PopulateBatch, call.first, call.first + call.count - 1)

\* the runs of a block whose field mask is not empty
MaskedRuns(block) == SelectSeq(block.textRuns, LAMBDA run : run.attrs # {})

Range(from, to) == <<from, to>>

\* C6: every TextBlock populated in pass 2 contributes to the populate
\* batch, consecutively: one insertText with its rawText, then one
\* updateTextStyle per run with a non-empty field mask, in run order, then
\* one createParagraphBullets per ListMarker; all with the target id and
\* cell location of the insertText.
C6_BlockRequests ==
  \A k \in 1..Len(calls) :
    LET block == calls[k].text
        segment == Segment(calls[k])
        runs == MaskedRuns(block)
        nRuns == Len(runs)
        nMarkers == Len(block.listMarkers)
    IN PopulateBatch # <<>> =>
         /\ Len(segment) = 1 + nRuns + nMarkers
         /\ segment[1].kind = "insertText"
         /\ segment[1].text = block.rawText
         /\ \A i \in 1..nRuns :
              /\ segment[1 + i].kind = "updateTextStyle"
              /\ Range(segment[1 + i].startIndex, segment[1 + i].endIndex)
                   = Range(runs[i].start, runs[i].end)
              /\ segment[1 + i].fields = computeShallowFieldMask(StyleObject(runs[i]))
         /\ \A j \in 1..nMarkers : segment[1 + nRuns + j].kind = "createParagraphBullets"
         /\ {Range(segment[1 + nRuns + j].startIndex, segment[1 + nRuns + j].endIndex) :
               j \in 1..nMarkers}
              = {Range(block.listMarkers[j].start, block.listMarkers[j].end) : j \in 1..nMarkers}
         /\ \A i \in 1..Len(segment) :
              /\ segment[i].objectId = segment[1].objectId
              /\ segment[i].cellLocation = segment[1].cellLocation

\* a populate batch holding, for one block, an insertText followed by an
\* updateTextStyle and a createParagraphBullets
C6_Witness ==
  /\ PopulateBatch # <<>>
  /\ \E k \in 1..Len(calls) :
       /\ calls[k].count >= 3
       /\ calls[k].text.textRuns # <<>>
       /\ calls[k].text.listMarkers # <<>>

\* the createParagraphBullets requests of a call, in the order emitted
Bullets(call) == SelectSeq(Segment(call), LAMBDA r : r.kind = "createParagraphBullets")

\* C7: the createParagraphBullets requests emitted for one TextBlock are in
\* descending start order (equal starts allowed) and do not overlap: each
\* starts at or after the end of every one emitted after it.
C7_BulletsDescending ==
  \A k \in 1..Len(calls) :
    LET bullets == Bullets(calls[k])
    IN \A i, j \in 1..Len(bullets) :
         i < j => /\ bullets[i].startIndex >= bullets[j].startIndex
                  /\ bullets[i].startIndex >= bullets[j].endIndex

\* the shape of a slide, as the classification sees it
HasTitle(slide) == slide.title # <<>>

HasSubtitle(slide) == slide.subtitle # <<>>

IsBig(slide) == HasTitle(slide) /\ slide.title[1].big

\* the first name of a decision list <<guard, name>> whose guard holds
FirstMatch(rules) == rules[CHOOSE i \in 1..Len(rules) :
                             rules[i][1] /\ \A j \in 1..(i - 1) : ~rules[j][1]][2]

\* the decision list as the claim words it: the title-and-body rule needs a
\* title
ClaimedRules(slide) ==
  <<<<HasTitle(slide) /\ HasSubtitle(slide) /\ Len(slide.bodies) > 0,
      "SECTION_TITLE_AND_DESCRIPTION">>,
    <<HasTitle(slide) /\ HasSubtitle(slide), "TITLE">>,
    <<IsBig(slide) /\ Len(slide.bodies) = 1, "BIG_NUMBER">>,
    <<IsBig(slide) /\ Len(slide.bodies) = 0, "MAIN_POINT">>,
    <<HasTitle(slide) /\ Len(slide.bodies) = 2, "TITLE_AND_TWO_COLUMNS">>,
    <<HasTitle(slide) /\ (Len(slide.bodies) > 0 \/ slide.tables # <<>>), "TITLE_AND_BODY">>,
    <<HasTitle(slide), "SECTION_HEADER">>,
    <<TRUE, "BLANK">>>>

\* C11 as claimed: the classification is the first match of the list
\* title+subtitle+bodies, title+subtitle, big title+one body, big title+no
\* body, title+two bodies, title+bodies or tables, title, otherwise blank.
C11_DecisionListAsClaimed ==
  phase = "classified" => output = FirstMatch(ClaimedRules(input))

\* the same list with the sixth rule also taking bodies without a title
AmendedRules(slide) ==
  [ClaimedRules(slide) EXCEPT
     ![6] = <<Len(slide.bodies) > 0 \/ (HasTitle(slide) /\ slide.tables # <<>>),
             "TITLE_AND_BODY">>]

\* C11: the classification is the first match of the list title+subtitle+
\* bodies, title+subtitle, big title+one body, big title+no body, title+two
\* bodies, any bodies (title or not) or title+tables, title, otherwise blank.
C11_DecisionList ==
  phase = "classified" => output = FirstMatch(AmendedRules(input))

\* a slide of bodies without a title is classified title-and-body
C11_Witness ==
  /\ phase = "classified"
  /\ ~HasTitle(input)
  /\ Len(input.bodies) = 1
  /\ output = "TITLE_AND_BODY"

\* Scenario E: a slide asking for the layout "Missing" was compiled against
\* a deck whose layouts are TITLE and BLANK
ScenarioE ==
  /\ phase = "compiled"
  /\ input.slide.customLayout = "Missing"
  /\ availableLayouts(input.presentation) = <<"TITLE", "BLANK">>

ScenarioEName ==
  IF classify(input.slide) \in {"TITLE", "BLANK"} THEN classify(input.slide) ELSE "TITLE"

ResolvedId(deck, name) ==
  LET named == {i \in 1..Len(deck.layouts) : deck.layouts[i].name = name}
  IN IF named = {} THEN 0
     ELSE deck.layouts[CHOOSE i \in named : \A j \in named : i <= j].objectId

\* C13: when the name resolves to a layout id, appendCreateSlideRequest
\* stores a fresh objectId on the slide and appends exactly one createSlide
\* request with that objectId and the resolved layout id, the requests
\* already in the list staying as they were.
C13_CreateSlideAppended ==
  phase = "created" /\ ResolvedId(input.presentation, input.name) # 0 =>
    /\ output.error = ""
    /\ output.slide = [input.slide EXCEPT !.objectId = output.slide.objectId]
    /\ output.slide.objectId # 0
    /\ output.slide.objectId # input.slide.objectId
    /\ \A i \in 1..Len(input.requests) : output.slide.objectId # input.requests[i].objectId
    /\ Len(output.requests) = Len(input.requests) + 1
    /\ SubSeq(output.requests, 1, Len(input.requests)) = input.requests
    /\ Last(output.requests)
         = [kind |-> "createSlide",
            layoutId |-> ResolvedId(input.presentation, input.name),
            objectId |-> output.slide.objectId]

\* a request appended behind the request of an earlier slide
C13_Witness ==
  /\ phase = "created"
  /\ input.requests # <<>>
  /\ Len(output.requests) = 2
  /\ output.requests[2].layoutId = 93

\* the names of the layouts of the deck that have one, in deck order
NamesOf(deck) ==
  LET named == SelectSeq(deck.layouts, LAMBDA l : l.name # "")
  IN [i \in 1..Len(named) |-> named[i].name]

\* C14: when the name does not resolve to a layout id,
\* appendCreateSlideRequest throws an error whose message names the layout
\* looked for and lists the deck's layout names separated by ", ", or
\* 'none'; it appends no request and leaves the slide as it was.
C14_UnknownLayoutThrows ==
  phase = "created" /\ ResolvedId(input.presentation, input.name) = 0 =>
    LET names == NamesOf(input.presentation)
        listed == SubSeq(output.detail, 3, Len(output.detail))
    IN /\ output.error = "Unable to find layout"
       /\ output.detail[1] = input.name
       /\ IF names = <<>> THEN listed = <<"none">>
          ELSE /\ Len(listed) = 2 * Len(names) - 1
               /\ \A i \in 1..Len(names) : listed[2 * i - 1] = names[i]
               /\ \A i \in 1..Len(names) - 1 : listed[2 * i] = ", "
       /\ output.requests = input.requests
       /\ output.slide = input.slide

\* a name the deck lacks, against a deck of two named layouts
C14_Witness ==
  /\ phase = "created"
  /\ input.name = "NON_EXISTENT_LAYOUT"
  /\ output.error = "Unable to find layout"
  /\ Len(NamesOf(input.presentation)) = 2
  /\ Len(output.detail) = 5

\* the document has been extracted and one of its slides holds two or more
\* tables
TwoTablesOnASlide ==
  /\ phase \notin {"idle", "extract"}
  /\ \E i \in 1..Len(slides) : Len(slides[i].tables) >= 2

\* the slides were created and reloaded, so that pass 2 has been started
PassTwoStarted ==
  /\ presentation.slides # <<>>
  /\ \E i \in 1..Len(net) : net[i].call = "reload" /\ net[i].status = "ok"

BodyPlaceholderIds ==
  LET elements == SelectSeq(input.presentation.slides[1].pageElements,
                            LAMBDA element : element.type = "BODY")
  IN [i \in 1..Len(elements) |-> elements[i].objectId]

\* the indices, in order, of the bodies that have a placeholder and a text
PairedBodies ==
  LET bodyCount == Min(Len(input.slide.bodies), Len(BodyPlaceholderIds))
  IN SelectSeq([i \in 1..bodyCount |-> i], LAMBDA i : input.slide.bodies[i].text # <<>>)

\* the requests of the output addressed to a BODY placeholder
BodyRequests ==
  SelectSeq(output.requests, LAMBDA request : request.objectId \in ToSet(BodyPlaceholderIds))

\* C16: pass 2 writes the i-th body into the i-th BODY placeholder of the
\* page, in page order, for every i up to the smaller of the two counts;
\* the bodies beyond the placeholders raise no error and add no request.
C16_BodiesByPosition ==
  phase = "filled" =>
    /\ output.error = ""
    /\ Len(BodyRequests) = Len(PairedBodies)
    /\ \A j \in 1..Len(PairedBodies) :
         BodyRequests[j] = [kind |-> "insertText",
                            text |-> input.slide.bodies[PairedBodies[j]].text[1].rawText,
                            objectId |-> BodyPlaceholderIds[PairedBodies[j]],
                            cellLocation |-> NoCell]
    /\ Len(output.requests)
         = Len(PairedBodies)
           + (IF input.slide.title # <<>>
                 /\ \E j \in 1..Len(input.presentation.slides[1].pageElements) :
                      input.presentation.slides[1].pageElements[j].type = "TITLE"
              THEN 1 ELSE 0)
           + (IF input.slide.notes # <<>> THEN 1 ELSE 0)

\* three bodies on a page of two BODY placeholders with a TITLE placeholder
\* between them
C16_Witness ==
  /\ phase = "filled"
  /\ Len(input.slide.bodies) = 3
  /\ \A i \in 1..3 : input.slide.bodies[i].text # <<>>
  /\ BodyPlaceholderIds = <<51, 53>>
  /\ Len(BodyRequests) = 2
  /\ BodyRequests[2].text = <<"2">>

\* the insertText, updateTextStyle and createParagraphBullets requests of
\* the cell at row r, column c (counted from 0) of the table tableId
CellOperations(text, tableId, r, c) ==
  LET at == [objectId |-> tableId, cellLocation |-> <<r, c>>]
      runs == MaskedRuns(text)
      n == Len(text.listMarkers)
  IN <<InsertTextRequest(text, at)>>
       \o [i \in 1..Len(runs) |-> UpdateTextStyleRequest(runs[i], at)]
       \o [j \in 1..n |-> CreateParagraphBulletsRequest(text.listMarkers[n + 1 - j], at)]

\* the requests of all cells, row by row
RowMajorOperations(cells, tableId) ==
  Flatten([r \in 1..Len(cells) |->
             Flatten([c \in 1..Len(cells[r]) |->
                        CellOperations(cells[r][c], tableId, r - 1, c - 1)])])

\* C17: for a slide with exactly one table pass 2 emits exactly one
\* createTable request, of the rows and columns of the table and on the
\* page of the slide, followed by the insertText, updateTextStyle and
\* createParagraphBullets requests of every cell in row-major order, each
\* carrying the id of the new table and the cell's row and column index.
C17_TableRequests ==
  phase = "filled" /\ Len(input.slide.tables) = 1 =>
    LET table == input.slide.tables[1]
        requests == output.requests
        created == {i \in 1..Len(requests) : requests[i].kind = "createTable"}
    IN /\ output.error = ""
       /\ Cardinality(created) = 1
       /\ \A p \in created :
            /\ p = IF input.slide.title # <<>> THEN 2 ELSE 1
            /\ requests[p].rows = table.rows
            /\ requests[p].columns = table.columns
            /\ requests[p].pageObjectId = input.slide.objectId
            /\ requests[p].objectId \notin {0, input.slide.objectId}
            /\ SubSeq(requests, p + 1, Len(requests))
                 = RowMajorOperations(table.cells, requests[p].objectId)

\* a table of two rows, the first shorter than the second, behind a title
C17_Witness ==
  /\ phase = "filled"
  /\ Len(input.slide.tables) = 1
  /\ input.slide.title # <<>>
  /\ input.slide.tables[1].rows = 2
  /\ Len(input.slide.tables[1].cells[1]) = 1
  /\ Len(input.slide.tables[1].cells[2]) = 2
  /\ input.slide.tables[1].cells[2][1].textRuns # <<>>
  /\ Len(output.requests) >= 5
  /\ output.requests[Len(output.requests)].cellLocation = <<1, 1>>

\* the slide a block of the document belongs to: a rule that is not the
\* first block starts the next slide
SlideOf(i) == 1 + Cardinality({j \in 2..i : input[j] = "hr"})

\* the blocks of the k-th slide, in document order
BlocksOf(k) ==
  SelectSeq([i \in 1..Len(input) |-> i], LAMBDA i : input[i] # "hr" /\ SlideOf(i) = k)

\* the blocks of the k-th slide that are of the kind
BlocksOfKind(k, kind) == SelectSeq(BlocksOf(k), LAMBDA i : input[i] = kind)

\* the characters of the texts of the bodies of a slide
BodyCharacters(slide) ==
  UNION {ToSet(slide.bodies[b].text[1].rawText) :
           b \in {c \in 1..Len(slide.bodies) : slide.bodies[c].text # <<>>}}

\* C18: the text of an H1 (H2) becomes the title (subtitle) of its slide
\* when the heading closes and is in no body of the slide; a slide whose
\* only content is an H1 is finalised with that title and no body.
C18_HeadingIsTitle ==
  phase = "extracted" =>
    /\ output.error = ""
    /\ \A k \in 1..Len(output.slides) :
         LET slide == output.slides[k]
             h1 == BlocksOfKind(k, "h1")
             h2 == BlocksOfKind(k, "h2")
         IN /\ IF h1 = <<>> THEN slide.title = <<>>
               ELSE /\ slide.title # <<>>
                    /\ slide.title[1].rawText = BlockText(Last(h1))
            /\ IF h2 = <<>> THEN slide.subtitle = <<>>
               ELSE /\ slide.subtitle # <<>>
                    /\ slide.subtitle[1].rawText = BlockText(Last(h2))
            /\ \A j \in ToSet(h1) \cup ToSet(h2) :
                 ToSet(BlockText(j)) \cap BodyCharacters(slide) = {}
            /\ Len(BlocksOf(k)) = 1 /\ Len(h1) = 1 => slide.bodies = <<>>

\* a slide of an H1 alone, behind a slide that has a body
C18_Witness ==
  /\ phase = "extracted"
  /\ input = <<"p", "hr", "h1">>
  /\ Len(output.slides) = 2
  /\ Len(output.slides[1].bodies) = 1
  /\ output.slides[2].title # <<>>
  /\ output.slides[2].bodies = <<>>

\* C19: a heading of level 3 sets neither title nor subtitle, and after the
\* slide is finalised its text, and the text of every paragraph before it
\* on the slide, is in the bodies of the slide.
C19_DeepHeadingInBody ==
  phase = "extracted" =>
    \A k \in 1..Len(output.slides) :
      LET slide == output.slides[k]
          h3 == BlocksOfKind(k, "h3")
      IN \A n \in 1..Len(h3) :
           /\ slide.title # <<>> => slide.title[1].rawText # BlockText(h3[n])
           /\ slide.subtitle # <<>> => slide.subtitle[1].rawText # BlockText(h3[n])
           /\ ToSet(BlockText(h3[n])) \subseteq BodyCharacters(slide)
           /\ \A j \in ToSet(BlocksOfKind(k, "p")) :
                j < h3[n] => ToSet(BlockText(j)) \subseteq BodyCharacters(slide)

\* the headings of the k-th slide all come before its paragraphs and
\* column markers
HeadingsFirst(k) ==
  \A i, j \in ToSet(BlocksOf(k)) :
    input[i] \in {"p", "column"} /\ input[j] \in HeadingTags => j < i

\* the text accumulated on the k-th slide behind its (j-1)-th column marker
\* and before the j-th: the paragraphs there, each with its line break
ColumnText(k, j) ==
  LET markers == ToSet(BlocksOfKind(k, "column"))
      paragraphs == SelectSeq(BlocksOfKind(k, "p"),
                              LAMBDA i : Cardinality({c \in markers : c < i}) = j - 1)
  IN Flatten([n \in 1..Len(paragraphs) |-> BlockText(paragraphs[n]) \o <<"N">>])

\* the rawText of a body, empty when the body has no TextBlock
RawTextOf(body) == IF body.text = <<>> THEN <<>> ELSE body.text[1].rawText

C21_CellsApartFromBody ==
  phase = "extracted" =>
    \A k \in 1..Len(output.slides) :
      LET slide == output.slides[k]
          tables == BlocksOfKind(k, "table")
      IN /\ Len(slide.tables) = Len(tables)
         /\ \A t \in 1..Len(tables) :
              /\ Len(slide.tables[t].cells) = 1
              /\ Len(slide.tables[t].cells[1]) = 2
              /\ slide.tables[t].cells[1][1].rawText = BlockText(tables[t])
              /\ slide.tables[t].cells[1][2].rawText = SecondCellText(tables[t])
              /\ \A j \in ToSet(BlocksOfKind(k, "p")) :
                   j < tables[t] => ToSet(BlockText(j)) \subseteq BodyCharacters(slide)


\* the context of extractSlides after the first n tokens of the document
ContextAfter(n) == processTokensFrom(SubSeq(parseMarkdown(input, 1), 1, n), NewContext, 0)

\* the blocks of the k-th slide that are comments with a text
NotesOf(k) == SelectSeq(BlocksOf(k), LAMBDA i : input[i] \in {"note", "listnote"})

\* C22: the text of every comment is extracted in a context of its own and
\* appended to the notes of the current slide: the notes of a slide are
\* the texts of its non-blank comments in document order, and a comment
\* changes nothing of the main context but these notes (slides, TextBlock,
\* style stack, list and table state stay as they were).
C22_NotesAppended ==
  phase = "extracted" /\ output.error = "" =>
    /\ \A k \in 1..Len(output.slides) :
         LET texts == Flatten([n \in 1..Len(NotesOf(k)) |->
                                 BlockText(NotesOf(k)[n]) \o <<"N">>])
         IN output.slides[k].notes = IF texts = <<>> THEN <<>> ELSE <<texts>>
    /\ LET tokens == parseMarkdown(input, 1)
       IN \A n \in 1..Len(tokens) :
            tokens[n].type = "html_block" =>
              ContextAfter(n) = [ContextAfter(n - 1) EXCEPT
                                   !.currentSlide[1].notes = ContextAfter(n).currentSlide[1].notes]

\* two comments on the second slide, the first inside a list item, behind a
\* paragraph
C22_Witness ==
  /\ phase = "extracted"
  /\ input = <<"note", "hr", "p", "listnote", "note">>
  /\ Len(output.slides) = 2
  /\ output.slides[2].notes = <<<<"4", "N", "5", "N">>>>
  /\ Len(output.slides[2].bodies) = 1


\* the step opens a list while a list of the other tag is active
OpensOtherList ==
  /\ phase = "extract"
  /\ Len(open') = Len(open) + 1
  /\ Last(open') \in ListTags
  /\ context.list # <<>>
  /\ context.list[1].tag # Last(open')

\* C23: opening a list while a list of the other tag is active aborts the
\* extraction with 'Nested lists must match parent style', and no slides
\* are returned.
C23_MixedNestingFatal ==
  [][OpensOtherList =>
       /\ phase' = "failed"
       /\ error' = "Nested lists must match parent style"
       /\ slides' = <<>>]_vars


\* C29: a TextBlock exists whenever a slide is open, so that a list or a
\* fenced code block that comes first on a slide (at the start of the
\* document or right after a rule) is accepted without error and its text
\* is in a body of that slide.
C29_TextBlockAtSlideStart ==
  phase = "extracted" =>
    /\ output.error = ""
    /\ \A k \in 1..Len(output.slides) :
         BlocksOf(k) # <<>> =>
           LET first == BlocksOf(k)[1]
           IN /\ input[first] = "list" =>
                   ToSet(BlockText(first)) \subseteq BodyCharacters(output.slides[k])
              /\ input[first] = "fence" =>
                   ToSet(CodeContent) \subseteq BodyCharacters(output.slides[k])


\* the context after the first n tokens of the paragraph
InlineContextAfter(n) == processTokensFrom(SubSeq(InlineTokens(input), 1, n), NewContext, 0)

\* the elements of the paragraph that are not supported, in order
Unsupported == SelectSeq(input, LAMBDA nodeName : nodeName \in UnsupportedElements)

\* C24: an inline HTML element that is not strong/b, em/i, code, sub, sup,
\* span or a comment aborts the extraction with 'Unsupported inline HTML
\* element: <name>'; the opening tag of a recognised element pushes exactly
\* one style, its closing tag pops exactly one, and neither raises an
\* error.
C24_InlineHtml ==
  phase = "extracted" =>
    /\ output.error = IF Unsupported = <<>> THEN "" ELSE UnsupportedMessage(Unsupported[1])
    /\ Unsupported # <<>> => output.slides = <<>>
    /\ \A n \in 1..Len(InlineTokens(input)) :
         LET token == InlineTokens(input)[n]
             before == InlineContextAfter(n - 1)
             after == InlineContextAfter(n)
         IN token.type = "html_inline" /\ before.error = "" =>
              IF token.nodeName \in SupportedElements
              THEN /\ after.error = ""
                   /\ Len(after.styles) = Len(before.styles) + 1
                   /\ Front(after.styles) = before.styles
                   /\ ElementStyle(token.nodeName) \subseteq Last(after.styles).attrs
              ELSE IF token.nodeName = ""
              THEN after.error = "" /\ after.styles = Front(before.styles)
              ELSE IF token.nodeName = "#comment"
              THEN after.error = "" /\ after.styles = before.styles
              ELSE after.error = UnsupportedMessage(token.nodeName)

\* sub inside strong: the text of the inner element carries both styles
C24_Witness ==
  /\ phase = "extracted"
  /\ input = <<"strong", "sub">>
  /\ output.error = ""
  /\ Len(output.slides) = 1
  /\ \E r \in 1..Len(output.slides[1].bodies[1].text[1].textRuns) :
       output.slides[1].bodies[1].text[1].textRuns[r].attrs = {"bold", "baselineOffset"}


\* the pages pass 2 looks its placeholders up in
ReloadedDeck ==
  [OrderDeck EXCEPT !.slides =
     [i \in 1..Len(output.create.requests) |->
        PageFor(output.create.requests[i], OrderDeck.layouts)]]

\* the content operations of the k-th slide built on their own
GroupOf(k) ==
  appendContentRequests(NewBuilder(output.create.slides[k], <<>>, output.create.uuidNext),
                        ReloadedDeck).requests

\* the number of slides of the document
SlideCount == 1 + Cardinality({j \in 2..Len(input) : input[j] = "hr"})

\* C25: the create-slide operations of the pass-1 batch, and the per-slide
\* groups of content operations of the pass-2 batch, are in the order of the
\* slides of the source document: the i-th createSlide is that of the i-th
\* slide, and the pass-2 batch is the groups of the slides one after the
\* other, each addressing only its own slide's page and holding the texts
\* of its own blocks.
C25_BatchesInSlideOrder ==
  phase = "populated" =>
    LET created == output.create
        populated == output.populate[1]
    IN /\ created.error = "" /\ populated.error = ""
       /\ Len(created.slides) = SlideCount
       /\ Len(created.requests) = SlideCount
       /\ \A k \in 1..SlideCount :
            /\ created.requests[k].kind = "createSlide"
            /\ created.requests[k].objectId = created.slides[k].objectId
            /\ \A j \in 1..(k - 1) : created.requests[j].objectId # created.requests[k].objectId
            /\ BlocksOfKind(k, "h1") # <<>> =>
                 created.slides[k].title[1].rawText = BlockText(Last(BlocksOfKind(k, "h1")))
            /\ \A r \in 1..Len(GroupOf(k)) :
                 /\ GroupOf(k)[r].objectId \div 10 = created.slides[k].objectId
                 /\ GroupOf(k)[r].kind = "insertText" =>
                      ToSet(GroupOf(k)[r].text) \subseteq
                        {"N"} \cup {Digits[i] : i \in ToSet(BlocksOf(k))}
       /\ populated.requests = Flatten([k \in 1..SlideCount |-> GroupOf(k)])

\* three slides: the titles 1 and 5 and the paragraph 3 are inserted in
\* that order
C25_Witness ==
  /\ phase = "populated"
  /\ input = <<"h1", "hr", "p", "hr", "h1">>
  /\ Len(output.create.requests) = 3
  /\ LET inserted == SelectSeq(output.populate[1].requests, LAMBDA r : r.kind = "insertText")
     IN [i \in 1..Len(inserted) |-> inserted[i].text[1]] = <<"1", "3", "5">>


\* the calls of the log that are to the function
CallsTo(call) == SelectSeq(calls, LAMBDA c : c.call = call)

\* generateSlides has left the await of the function behind
Past(call) ==
  \/ phase \in {"returned", "thrown"}
  \/ call = "copyPresentation" /\ phase \in {"newPresentation", "generateFromMarkdown"}
  \/ call = "newPresentation" /\ phase = "generateFromMarkdown"

\* C26: generateSlides obtains the access token first; with a template id
\* it attempts copyPresentation once and, if that fails, newPresentation
\* exactly once, generating with the new presentation; an error of the
\* fallback is propagated; if the token retrieval fails neither
\* copyPresentation nor newPresentation is called.
C26_CopyThenFallback ==
  /\ calls # <<>> => calls[1].call = "getAccessToken"
  /\ Len(CallsTo("getAccessToken")) <= 1
  /\ (calls # <<>> /\ calls[1].status = "rejected") =>
       /\ Len(calls) = 1
       /\ phase = "thrown" /\ error = "Authentication failed"
  /\ (input.templateId # "" /\ Len(calls) >= 2) =>
       /\ calls[2].call = "copyPresentation"
       /\ calls[2].args = <<calls[1].value, presentationTitle(input.title), input.templateId>>
       /\ Len(CallsTo("copyPresentation")) = 1
       /\ IF calls[2].status = "rejected"
          THEN /\ Past("newPresentation") <=> Len(CallsTo("newPresentation")) = 1
               /\ Len(CallsTo("newPresentation")) <= 1
               /\ Len(calls) >= 3 =>
                    /\ calls[3].call = "newPresentation"
                    /\ calls[3].args = <<calls[1].value, presentationTitle(input.title)>>
                    /\ IF calls[3].status = "rejected"
                       THEN /\ phase = "thrown"
                            /\ error = "Failed to create presentation"
                            /\ Len(calls) = 3
                       ELSE /\ presentation.presentationId = 3
                            /\ Len(calls) >= 4 =>
                                 /\ calls[4].call = "generateFromMarkdown"
                                 /\ calls[4].args = <<3, input.markdown>>
          ELSE CallsTo("newPresentation") = <<>>
  /\ input.templateId = "" => CallsTo("copyPresentation") = <<>>

\* the copy and the fallback both failed: the fallback's error is thrown
C26_Witness ==
  /\ phase = "thrown"
  /\ input.templateId = "template-123"
  /\ Kinds(calls) = <<"getAccessToken", "copyPresentation", "newPresentation">>
  /\ calls[2].status = "rejected"
  /\ error = "Failed to create presentation"


\* C27: a token getAccessToken returns from the cache is still valid: its
\* expiry is later than the time of the return plus the 5-minute buffer,
\* after any sequence of init, getAccessToken and signOut calls.
C27_CachedTokenValid ==
  \A r \in 1..Len(auth.returned) :
    auth.returned[r].cached => auth.returned[r].expiresAt > auth.returned[r].at + BufferMs

\* C28: signOut clears the stored token and the cached token and, when
\* Google Identity Services is available and a token was cached at the
\* call, revokes that token.
C28_SignOutRevokes ==
  [][auth'.op = "signOut" /\ auth' # auth =>
       /\ auth'.stored = <<>>
       /\ auth'.cachedToken = ""
       /\ (auth.gsi /\ auth.cachedToken # "") =>
            auth'.revoked = Append(auth.revoked, auth.cachedToken)]_vars


\* C30: a TextBlock attached to its owner is not changed by the pass-2
\* request builder (the slides after pass 2 are the slides before it), and
\* building the content requests a second time for the same slides emits
\* the same operations in the same order.
C30_BuildTwice ==
  phase = "repopulated" =>
    /\ output.populate[1].slides = output.create.slides
    /\ output.populate[2].requests = output.populate[1].requests


\* the lists open in the token stream, outermost first
OpenLists(stack) == SelectSeq(stack, LAMBDA kind : kind \in ListTags \cup ListsWithItem)

\* the open lists are of one tag
SingleTag(stack) ==
  \A i, j \in 1..Len(OpenLists(stack)) :
    TagOfList(OpenLists(stack)[i]) = TagOfList(OpenLists(stack)[j])

\* the step hands a list_open token to its rule
OpensList == Len(open') = Len(open) + 1 /\ Last(open') \in ListTags

\* the step hands a list_close token to its rule
ClosesList ==
  /\ Len(open') = Len(open) - 1
  /\ IF open = <<>> THEN FALSE ELSE Last(open) \in ListsWithItem

\* the list rules on a step of a stream of lists of one tag
ListRulesAsClaimed ==
  /\ OpensList =>
       /\ phase' = "extract"
       /\ context'.list # <<>>
       /\ context'.list[1].depth = Len(OpenLists(open))
       /\ context'.text[1].listMarkers = context.text[1].listMarkers
       /\ OpenLists(open) = <<>> => context'.list[1].start = Len(context.text[1].rawText)
       /\ OpenLists(open) # <<>> => context'.list[1].start = context.list[1].start
  /\ ClosesList =>
       /\ phase' = "extract"
       /\ IF Len(OpenLists(open)) = 1
          THEN /\ context'.list = <<>>
               /\ context'.text[1].listMarkers =
                    Append(context.text[1].listMarkers,
                           [start |-> context.list[1].start,
                            end |-> Len(context.text[1].rawText),
                            type |-> IF TagOfList(Last(open)) = "ul" THEN "unordered"
                                                                       ELSE "ordered"])
          ELSE /\ context'.list = [context.list EXCEPT ![1].depth = @ - 1]
               /\ context'.list[1].depth >= 0
               /\ context'.text[1].listMarkers = context.text[1].listMarkers
  /\ (~OpensList /\ ~ClosesList /\ phase' = "extract") =>
       /\ context'.list = context.list
       /\ context.text # <<>> =>
            context'.text[1].listMarkers = context.text[1].listMarkers
       /\ (context.list = <<>>) <=> (OpenLists(open) = <<>>)

\* C31: in a well-nested stream of list tokens of one tag exactly one
\* ListMarker is emitted per outermost list, at its close, spanning from
\* the rawText length at the outermost open to the rawText length at that
\* close; a close at depth > 0 emits no marker and only decrements the
\* depth, the depth is never negative and no list is active after the
\* outermost close.
C31_OneMarkerPerList ==
  [][(phase = "extract" /\ SingleTag(open) /\ SingleTag(open')) => ListRulesAsClaimed]_vars


\* the object ids of the create-slide operations of pass 1, in order
CreatedIds == [k \in 1..Len(output.create.requests) |-> output.create.requests[k].objectId]

\* the digits that the texts of the blocks of the k-th slide are made of
DigitsOf(k) == {Digits[i] : i \in ToSet(BlocksOf(k))}

\* C32: for every slide of a document the lookups of pass 2 (page,
\* placeholders) and its create-table operation use exactly the objectId
\* put in the slide's create-slide operation in pass 1, and the objectIds
\* of the slides of one document are pairwise distinct.
C32_SameObjectId ==
  phase = "populated" =>
    LET created == output.create
        populated == output.populate[1]
    IN /\ Len(CreatedIds) = SlideCount
       /\ \A k \in 1..SlideCount :
            /\ created.slides[k].objectId = CreatedIds[k]
            /\ populated.slides[k].objectId = CreatedIds[k]
            /\ \A j \in 1..SlideCount : j # k => CreatedIds[j] # CreatedIds[k]
       /\ populated.error \in {"", "Multiple tables per slide are not supported."}
       /\ \A r \in 1..Len(populated.requests) :
            LET request == populated.requests[r]
            IN /\ request.kind = "createTable" =>
                    \E k \in 1..SlideCount :
                      /\ request.pageObjectId = CreatedIds[k]
                      /\ BlocksOfKind(k, "table") # <<>>
                      /\ \A q \in 1..Len(populated.requests) :
                           (populated.requests[q].kind = "insertText"
                              /\ populated.requests[q].objectId = request.objectId) =>
                             populated.requests[q].text[1] \in DigitsOf(k)
               /\ (request.kind = "insertText" /\ request.cellLocation = NoCell) =>
                    \E k \in 1..SlideCount :
                      /\ request.objectId \div 10 = CreatedIds[k]
                      /\ request.text[1] \in DigitsOf(k)

\* three slides, a table on the second: its create-table operation names
\* the page of the second create-slide operation
C32_Witness ==
  /\ phase = "populated"
  /\ input = <<"h1", "hr", "h1", "table", "hr">>
  /\ output.populate[1].error = ""
  /\ \E r \in 1..Len(output.populate[1].requests) :
       /\ output.populate[1].requests[r].kind = "createTable"
       /\ output.populate[1].requests[r].pageObjectId = CreatedIds[2]


\* a layout a slide can be created with: it has a name and an objectId
Usable(layout) == layout.name # "" /\ layout.objectId # 0

\* C33: on a deck of at least one layout the name layout matching chooses
\* is one of the deck's layout names, for every slide shape and every
\* customLayout value, and pass 1 fails with a layout-resolution error only
\* when no layout of the deck is usable.
C33_MatchedLayoutResolves ==
  (phase = "compiled" /\ input.presentation.layouts # <<>>) =>
    /\ \E i \in 1..Len(input.presentation.layouts) :
         input.presentation.layouts[i].name = matchLayout(input.presentation, input.slide)
    /\ output.error # "" =>
         /\ output.error = "Unable to find layout"
         /\ \A i \in 1..Len(input.presentation.layouts) :
              ~Usable(input.presentation.layouts[i])


\* the operations on text
TextKinds == {"insertText", "updateTextStyle", "createParagraphBullets"}

\* C34: every insert-text, update-text-style and create-paragraph-bullets
\* operation of pass 2 carries a defined target object id: nothing is
\* emitted for a title, subtitle, body or notes whose placeholder or notes
\* object is not found on the slide's page.
C34_TargetsDefined ==
  phase = "filled" =>
    \A r \in 1..Len(output.requests) :
      output.requests[r].kind \in TextKinds => output.requests[r].objectId # 0


\* the context, with the rule set in force, after the first n tokens of the
\* document
DocumentAfter(n) == processTokensFrom(SubSeq(NotesDocument(input), 1, n), NewContext, 0)

\* the index of the comment among the tokens of the document
CommentAt == Len(BlockTokens("p", 1)) + 1

\* the sub-context, with the rule set in force, after the first k tokens of
\* the content of the comment
FragmentAfter(k) ==
  processTokensFrom(SubSeq(FragmentTokens(input), 1, k), subContextOf(DocumentAfter(CommentAt - 1)), 0)

\* C35: the rule set behaves like a mode parameter threaded through the
\* recursion: every token of the content of a notes comment, the tokens
\* that follow an inline comment of that content included, is dispatched
\* with the inline-only rule set, and every token of the enclosing
\* document, before and after the comment, with the full rule set.
C35_RuleSetIsAMode ==
  phase = "extracted" =>
    /\ \A k \in 0..(Len(FragmentTokens(input)) - 1) : FragmentAfter(k).ruleSet = "inline"
    /\ \A n \in 0..(Len(NotesDocument(input)) - 1) : DocumentAfter(n).ruleSet = "full"


====
